---- MODULE Spec2Model ----
(***************************************************************************)
(* Model of the assistant-message ingestion core.                          *)
(*                                                                         *)
(* parseAssistantMessage (core/assistant-message/parse-assistant-message)  *)
(* is modelled character by character: a string is a sequence of one-      *)
(* character strings, the locals of the function are the fields of the     *)
(* variable `scan`, one loop iteration is one LoopIteration step and the   *)
(* code after the loop is the EndOfBuffer step.                            *)
(*                                                                         *)
(* The provider adapters (api/providers/anthropic, api/providers/openai)   *)
(* are modelled as generators: creating the request is one step, every     *)
(* chunk the provider delivers is one step that yields the chunk's events, *)
(* and the end or the failure of the provider stream is one step.          *)
(*                                                                         *)
(* The webview provider (core/webview/ClineProvider) is modelled as calls  *)
(* of its async methods that are in flight together: a step of a call runs *)
(* the code between two of its awaits. utils/sound is modelled with the    *)
(* clock it reads.                                                         *)
(***************************************************************************)
EXTENDS Integers, Sequences, FiniteSets, TLC

VARIABLES
    assistantMessage,         \* the turn buffer: the argument of the parser
    scan,                     \* the locals of parseAssistantMessage
    pc,                       \* "idle" (no call running) or "parse" (in the loop)
    assistantMessageContent,  \* the block list the last call returned
    nChunks,                  \* text events appended to the buffer so far
    handler,                  \* the adapter in use: "anthropic", "openai", "none"
    options,                  \* the handler's options
    messages,                 \* the history given to createMessage
    requests,                 \* the requests sent to the provider so far
    delivered,                \* what the provider delivered so far
    events,                   \* the events createMessage yielded so far
    stream,                   \* the provider stream: "none", "open", "done", "thrown"
    outcome,                  \* createMessage: "idle", "streaming", "ended", "error"
    totals,                   \* the running usage totals of the turn
    completion,               \* completePrompt: pending, returned or thrown
    cline,                    \* this.cline: 0 (undefined) or a task instance
    instances,                \* the task instances created so far
    calls,                    \* the calls of provider methods started so far
    taskHistory,              \* the global state "taskHistory"
    isSoundEnabled,           \* utils/sound: isSoundEnabled
    lastPlayedTime,           \* utils/sound: lastPlayedTime
    clock,                    \* Date.now()
    played,                   \* the times of the playbacks started
    playing,                  \* the promises of sound.play not settled yet
    shown                     \* the error messages shown so far

parserVars == <<assistantMessage, scan, pc, assistantMessageContent, nChunks>>

providerVars ==
    <<handler, options, messages, requests, delivered, events, stream, outcome,
      totals, completion>>

taskVars == <<cline, instances, calls, taskHistory>>

soundVars == <<isSoundEnabled, lastPlayedTime, clock, played, playing, shown>>

hostVars == <<taskVars, soundVars>>

vars ==
    <<assistantMessage, scan, pc, assistantMessageContent, nChunks,
      handler, options, messages, requests, delivered, events, stream, outcome,
      totals, completion, cline, instances, calls, taskHistory,
      isSoundEnabled, lastPlayedTime, clock, played, playing, shown>>

----------------------------------------------------------------------------
(* Bounds of the model.                                                    *)

\* text events of one turn
MaxChunks == 3
\* pieces of the payload of a <content> parameter
MaxPayload == 3
\* complete parameters after a tool's opening delimiter
MaxParams == 2
\* messages of a history given to createMessage
MaxHistory == 3
\* chunks a provider stream delivers
MaxStreamChunks == 3

----------------------------------------------------------------------------
(* Strings: JavaScript string operations on sequences of characters.       *)

Min(a, b) == IF a < b THEN a ELSE b
Max(a, b) == IF a > b THEN a ELSE b

\* String.prototype.slice(start, end), indices 0-based, negative from the end
slice(s, start, end) ==
    LET n    == Len(s)
        from == IF start < 0 THEN Max(n + start, 0) ELSE Min(start, n)
        to   == IF end < 0 THEN Max(n + end, 0) ELSE Min(end, n)
    IN  IF from >= to THEN <<>> ELSE SubSeq(s, from + 1, to)

\* String.prototype.slice(start)
sliceFrom(s, start) == slice(s, start, Len(s))

\* String.prototype.includes in the place of endsWith
endsWithAnywhere(s, t) ==
    \E k \in 0..(Len(s) - Len(t)) : SubSeq(s, k + 1, k + Len(t)) = t

\* String.prototype.endsWith
endsWith(s, t) ==
    /\ Len(t) <= Len(s)
    /\ \A k \in 1..Len(t) : s[Len(s) - Len(t) + k] = t[k]

\* whether t occurs in s at 0-based index k
occursAt(s, t, k) ==
    /\ k >= 0
    /\ k + Len(t) <= Len(s)
    /\ \A j \in 1..Len(t) : s[k + j] = t[j]

\* String.prototype.indexOf: the first 0-based index of t in s, or -1
indexOf(s, t) ==
    LET hits == {k \in 0..Len(s) : occursAt(s, t, k)}
    IN  IF hits = {} THEN -1 ELSE CHOOSE k \in hits : \A m \in hits : k <= m

\* String.prototype.lastIndexOf: the last 0-based index of t in s, or -1
lastIndexOf(s, t) ==
    LET hits == {k \in 0..Len(s) : occursAt(s, t, k)}
    IN  IF hits = {} THEN -1 ELSE CHOOSE k \in hits : \A m \in hits : k >= m

\* the characters String.prototype.trim removes: the white space and the
\* line terminators of ECMAScript.  A character that has no escape in a
\* string is written as its code point, one element of a sequence
WhiteSpace ==
    { "\t", "\n", "U+000B", "\f", "\r", " ",
      "U+00A0", "U+1680", "U+2000", "U+2001", "U+2002", "U+2003",
      "U+2004", "U+2005", "U+2006", "U+2007", "U+2008", "U+2009",
      "U+200A", "U+2028", "U+2029", "U+202F", "U+205F", "U+3000",
      "U+FEFF" }

\* String.prototype.trim
trim(s) ==
    LET keep == {k \in 1..Len(s) : s[k] \notin WhiteSpace}
    IN  IF keep = {} THEN <<>>
        ELSE SubSeq(s, CHOOSE k \in keep : \A m \in keep : k <= m,
                       CHOOSE k \in keep : \A m \in keep : k >= m)

----------------------------------------------------------------------------
(* The tool vocabulary (core/assistant-message/index.ts).                  *)

read_file == <<"r", "e", "a", "d", "_", "f", "i", "l", "e">>
write_to_file == <<"w", "r", "i", "t", "e", "_", "t", "o", "_", "f", "i", "l", "e">>
search_files == <<"s", "e", "a", "r", "c", "h", "_", "f", "i", "l", "e", "s">>
path == <<"p", "a", "t", "h">>
content == <<"c", "o", "n", "t", "e", "n", "t">>
regex == <<"r", "e", "g", "e", "x">>

toolUseNames == <<read_file, write_to_file, search_files>>
toolParamNames == <<path, content, regex>>

\* `<${name}>`
OpeningTag(name) == <<"<">> \o name \o <<">">>
\* `</${name}>`
ClosingTag(name) == <<"<", "/">> \o name \o <<">">>

----------------------------------------------------------------------------
(* Content blocks.                                                         *)

undefined == [type |-> "undefined"]

TextContent(c, p) == [type |-> "text", content |-> c, partial |-> p]

ToolUse(n, ps, p) == [type |-> "tool_use", name |-> n, params |-> ps, partial |-> p]

\* params[name] = value on a JavaScript object: a property keeps the place of
\* its first assignment, a later assignment replaces its value
SetParam(params, name, value) ==
    IF \E k \in 1..Len(params) : params[k].name = name
    THEN [k \in 1..Len(params) |->
            IF params[k].name = name THEN [name |-> name, value |-> value]
            ELSE params[k]]
    ELSE Append(params, [name |-> name, value |-> value])

HasParam(params, name) == \E k \in 1..Len(params) : params[k].name = name

ParamValue(params, name) ==
    params[CHOOSE k \in 1..Len(params) : params[k].name = name].value

----------------------------------------------------------------------------
(* parseAssistantMessage.                                                  *)

\* the locals as declared on entry
InitialScan ==
    [ contentBlocks                |-> <<>>,
      currentTextContent           |-> undefined,
      currentTextContentStartIndex |-> 0,
      currentToolUse               |-> undefined,
      currentToolUseStartIndex     |-> 0,
      currentParamName             |-> <<>>,
      currentParamValueStartIndex  |-> 0,
      accumulator                  |-> <<>>,
      i                            |-> 0 ]

\* enterParse with the accumulator kept from the previous activation
enterParseKeepsAccumulator(prev) ==
    [InitialScan EXCEPT !.accumulator = prev.accumulator]

\* the locals of a new activation: declared anew, whatever the locals of
\* the previous activation (prev) held
enterParse(prev) == InitialScan

\* the index in `names` of the first name whose opening tag ends acc, or 0
FirstOpeningTag(names, acc) ==
    LET hits == {k \in 1..Len(names) : endsWith(acc, OpeningTag(names[k]))}
    IN  IF hits = {} THEN 0 ELSE CHOOSE k \in hits : \A m \in hits : k <= m

\* InParam storing the value without trim()
InParamNoTrim(s) ==
    LET currentParamValue == sliceFrom(s.accumulator, s.currentParamValueStartIndex)
        paramClosingTag   == ClosingTag(s.currentParamName)
    IN  IF endsWith(currentParamValue, paramClosingTag)
        THEN [s EXCEPT
                !.currentToolUse.params =
                    SetParam(@, s.currentParamName,
                             slice(currentParamValue, 0, -Len(paramClosingTag))),
                !.currentParamName = <<>>]
        ELSE s

\* InParam keeping the first value of a parameter that is closed again
InParamKeepsFirst(s) ==
    LET currentParamValue == sliceFrom(s.accumulator, s.currentParamValueStartIndex)
        paramClosingTag   == ClosingTag(s.currentParamName)
    IN  IF endsWith(currentParamValue, paramClosingTag)
        THEN [s EXCEPT
                !.currentToolUse.params =
                    IF HasParam(@, s.currentParamName)
                    THEN @
                    ELSE SetParam(@, s.currentParamName,
                                  trim(slice(currentParamValue, 0, -Len(paramClosingTag)))),
                !.currentParamName = <<>>]
        ELSE s

\* InParam closing the parameter at the closing tag of the tool as well
InParamEndsAtToolClose(s) ==
    LET currentParamValue == sliceFrom(s.accumulator, s.currentParamValueStartIndex)
        paramClosingTag   == ClosingTag(s.currentParamName)
        toolUseClosingTag == ClosingTag(s.currentToolUse.name)
    IN  IF endsWith(currentParamValue, paramClosingTag)
        THEN [s EXCEPT
                !.currentToolUse.params =
                    SetParam(@, s.currentParamName,
                             trim(slice(currentParamValue, 0, -Len(paramClosingTag)))),
                !.currentParamName = <<>>]
        ELSE IF endsWith(currentParamValue, toolUseClosingTag)
             THEN [s EXCEPT
                     !.currentToolUse.params =
                         SetParam(@, s.currentParamName,
                                  trim(slice(currentParamValue, 0, -Len(toolUseClosingTag)))),
                     !.currentParamName = <<>>]
             ELSE s

\* a parameter is open: look for its closing tag
InParam(s) ==
    LET currentParamValue == sliceFrom(s.accumulator, s.currentParamValueStartIndex)
        paramClosingTag   == ClosingTag(s.currentParamName)
    IN  IF endsWith(currentParamValue, paramClosingTag)
        THEN [s EXCEPT
                !.currentToolUse.params =
                    SetParam(@, s.currentParamName,
                             trim(slice(currentParamValue, 0, -Len(paramClosingTag)))),
                !.currentParamName = <<>>]
        ELSE s

\* WriteToFileContent without the test of the tool's name
WriteToFileContentAnyTool(s) ==
    IF endsWith(s.accumulator, ClosingTag(content))
    THEN LET toolContent       == sliceFrom(s.accumulator, s.currentToolUseStartIndex)
             contentStartTag   == OpeningTag(content)
             contentEndTag     == ClosingTag(content)
             contentStartIndex == indexOf(toolContent, contentStartTag) + Len(contentStartTag)
             contentEndIndex   == lastIndexOf(toolContent, contentEndTag)
         IN  IF contentStartIndex # -1 /\ contentEndIndex # -1
                /\ contentEndIndex > contentStartIndex
             THEN [s EXCEPT !.currentToolUse.params =
                      SetParam(@, content,
                               trim(slice(toolContent, contentStartIndex, contentEndIndex)))]
             ELSE s
    ELSE s

\* the write_to_file special case: content runs to the LAST </content>
WriteToFileContent(s) ==
    IF s.currentToolUse.name = write_to_file
       /\ endsWith(s.accumulator, ClosingTag(content))
    THEN LET toolContent       == sliceFrom(s.accumulator, s.currentToolUseStartIndex)
             contentStartTag   == OpeningTag(content)
             contentEndTag     == ClosingTag(content)
             contentStartIndex == indexOf(toolContent, contentStartTag) + Len(contentStartTag)
             contentEndIndex   == lastIndexOf(toolContent, contentEndTag)
         IN  IF contentStartIndex # -1 /\ contentEndIndex # -1
                /\ contentEndIndex > contentStartIndex
             THEN [s EXCEPT !.currentToolUse.params =
                      SetParam(@, content,
                               trim(slice(toolContent, contentStartIndex, contentEndIndex)))]
             ELSE s
    ELSE s

\* InTool closing the tool at the closing tag of any of the tools `closers`
\* and opening the parameters of `names`
InToolVariant(s, closers, names) ==
    LET currentToolValue == sliceFrom(s.accumulator, s.currentToolUseStartIndex)
    IN  IF \E k \in 1..Len(closers) : endsWith(currentToolValue, ClosingTag(closers[k]))
        THEN [s EXCEPT
                !.contentBlocks = Append(@, [s.currentToolUse EXCEPT !.partial = FALSE]),
                !.currentToolUse = undefined]
        ELSE LET k  == FirstOpeningTag(names, s.accumulator)
                 s1 == IF k = 0 THEN s
                       ELSE [s EXCEPT
                               !.currentParamName = slice(OpeningTag(names[k]), 1, -1),
                               !.currentParamValueStartIndex = Len(s.accumulator)]
             IN  WriteToFileContent(s1)

\* InTool closing the tool at the closing tag of any tool
InToolAnyClosingTag(s) == InToolVariant(s, toolUseNames, toolParamNames)

\* InTool opening a parameter at the first name of the vocabulary only
InToolFirstNameOnly(s) ==
    InToolVariant(s, <<s.currentToolUse.name>>, <<toolParamNames[1]>>)

\* InTool starting a new tool at the opening tag of a tool: the open tool
\* is appended as complete and the new one takes its place
InToolNested(s) ==
    LET k == FirstOpeningTag(toolUseNames, s.accumulator)
    IN  IF k # 0
        THEN [s EXCEPT
                !.contentBlocks = Append(@, [s.currentToolUse EXCEPT !.partial = FALSE]),
                !.currentToolUse =
                    ToolUse(slice(OpeningTag(toolUseNames[k]), 1, -1), <<>>, TRUE),
                !.currentToolUseStartIndex = Len(s.accumulator)]
        ELSE InToolVariant(s, <<s.currentToolUse.name>>, toolParamNames)

\* a tool is open and no parameter is: the tool's closing tag, else a
\* parameter's opening tag, else the write_to_file special case
InTool(s) ==
    LET currentToolValue  == sliceFrom(s.accumulator, s.currentToolUseStartIndex)
        toolUseClosingTag == ClosingTag(s.currentToolUse.name)
    IN  IF endsWith(currentToolValue, toolUseClosingTag)
        THEN [s EXCEPT
                !.contentBlocks = Append(@, [s.currentToolUse EXCEPT !.partial = FALSE]),
                !.currentToolUse = undefined]
        ELSE LET k  == FirstOpeningTag(toolParamNames, s.accumulator)
                 s1 == IF k = 0 THEN s
                       ELSE [s EXCEPT
                               !.currentParamName = slice(OpeningTag(toolParamNames[k]), 1, -1),
                               !.currentParamValueStartIndex = Len(s.accumulator)]
             IN  WriteToFileContent(s1)

\* Outside with the tool's opening tag looked up with a parameter name's too
\* (`names` is the vocabulary searched), the text cut by `cut` characters less
\* than the tag's length, the text kept open when keepText, and the tool
\* opened with the flag toolPartial
OutsideVariant(s, names, cut, keepText, toolPartial) ==
    LET k == FirstOpeningTag(names, s.accumulator)
    IN  IF k # 0
        THEN LET toolUseOpeningTag == OpeningTag(names[k])
                 s1 == [s EXCEPT
                          !.currentToolUse =
                              ToolUse(slice(toolUseOpeningTag, 1, -1), <<>>, toolPartial),
                          !.currentToolUseStartIndex = Len(s.accumulator)]
             IN  IF s.currentTextContent # undefined
                 THEN [s1 EXCEPT
                         !.contentBlocks = Append(@,
                             TextContent(
                                 trim(slice(s.currentTextContent.content, 0,
                                            -(Len(toolUseOpeningTag) - cut))),
                                 FALSE)),
                         !.currentTextContent =
                             IF keepText THEN s.currentTextContent ELSE undefined]
                 ELSE s1
        ELSE LET start == IF s.currentTextContent = undefined THEN s.i
                          ELSE s.currentTextContentStartIndex
             IN  [s EXCEPT
                    !.currentTextContentStartIndex = start,
                    !.currentTextContent =
                        TextContent(trim(sliceFrom(s.accumulator, start)), TRUE)]

\* Outside cutting one character too few off the text: the '<' stays
OutsideLeavesBracket(s) == OutsideVariant(s, toolUseNames, 2, FALSE, TRUE)

\* Outside looking for the opening tag of a parameter name as well
OutsideAnyName(s) ==
    OutsideVariant(s, toolUseNames \o toolParamNames, 1, FALSE, TRUE)

\* Outside leaving currentTextContent set when a tool starts
OutsideKeepsText(s) == OutsideVariant(s, toolUseNames, 1, TRUE, TRUE)

\* Outside opening the tool as a complete block
OutsideToolComplete(s) == OutsideVariant(s, toolUseNames, 1, FALSE, FALSE)

\* Outside appending the text before a tool only when it is not empty
OutsideSkipsEmptyText(s) ==
    LET k == FirstOpeningTag(toolUseNames, s.accumulator)
    IN  IF k # 0
        THEN LET toolUseOpeningTag == OpeningTag(toolUseNames[k])
                 text == IF s.currentTextContent = undefined THEN <<>>
                         ELSE trim(slice(s.currentTextContent.content, 0,
                                         -Len(slice(toolUseOpeningTag, 0, -1))))
                 s1 == [s EXCEPT
                          !.currentToolUse = ToolUse(slice(toolUseOpeningTag, 1, -1), <<>>, TRUE),
                          !.currentToolUseStartIndex = Len(s.accumulator),
                          !.currentTextContent = undefined]
             IN  IF text # <<>>
                 THEN [s1 EXCEPT !.contentBlocks = Append(@, TextContent(text, FALSE))]
                 ELSE s1
        ELSE LET start == IF s.currentTextContent = undefined THEN s.i
                          ELSE s.currentTextContentStartIndex
             IN  [s EXCEPT
                    !.currentTextContentStartIndex = start,
                    !.currentTextContent =
                        TextContent(trim(sliceFrom(s.accumulator, start)), TRUE)]

\* no tool is open: a tool's opening tag starts one, anything else is text
Outside(s) ==
    LET k == FirstOpeningTag(toolUseNames, s.accumulator)
    IN  IF k # 0
        THEN LET toolUseOpeningTag == OpeningTag(toolUseNames[k])
                 s1 == [s EXCEPT
                          !.currentToolUse = ToolUse(slice(toolUseOpeningTag, 1, -1), <<>>, TRUE),
                          !.currentToolUseStartIndex = Len(s.accumulator)]
             IN  IF s.currentTextContent # undefined
                 THEN [s1 EXCEPT
                         !.contentBlocks = Append(@,
                             TextContent(
                                 trim(slice(s.currentTextContent.content, 0,
                                            -Len(slice(toolUseOpeningTag, 0, -1)))),
                                 FALSE)),
                         !.currentTextContent = undefined]
                 ELSE s1
        ELSE LET start == IF s.currentTextContent = undefined THEN s.i
                          ELSE s.currentTextContentStartIndex
             IN  [s EXCEPT
                    !.currentTextContentStartIndex = start,
                    !.currentTextContent =
                        TextContent(trim(sliceFrom(s.accumulator, start)), TRUE)]

\* loopBody looking for the tool's closing tag before the open parameter
loopBodyToolFirst(s, char) ==
    LET s1 == [s EXCEPT !.accumulator = Append(@, char)]
        s2 == IF s1.currentToolUse # undefined
                 /\ endsWith(sliceFrom(s1.accumulator, s1.currentToolUseStartIndex),
                             ClosingTag(s1.currentToolUse.name))
              THEN InTool(s1)
              ELSE IF s1.currentToolUse # undefined /\ s1.currentParamName # <<>>
                   THEN InParam(s1)
                   ELSE IF s1.currentToolUse # undefined
                        THEN InTool(s1)
                        ELSE Outside(s1)
    IN  [s2 EXCEPT !.i = @ + 1]

\* one iteration of the for loop on character `char`, i++ included
loopBody(s, char) ==
    LET s1 == [s EXCEPT !.accumulator = Append(@, char)]
        s2 == IF s1.currentToolUse # undefined /\ s1.currentParamName # <<>>
              THEN InParam(s1)
              ELSE IF s1.currentToolUse # undefined
                   THEN InTool(s1)
                   ELSE Outside(s1)
    IN  [s2 EXCEPT !.i = @ + 1]

\* endOfBuffer with the open blocks pushed as `textPartial` says, when
\* ~guarded, currentTextContent pushed without the test that it is defined,
\* and the open parameter stored only when openParam
endOfBufferVariant(s, textPartial, guarded, openParam) ==
    LET tool ==
            IF s.currentParamName # <<>> /\ openParam
            THEN [s.currentToolUse EXCEPT !.params =
                     SetParam(@, s.currentParamName,
                              trim(sliceFrom(s.accumulator, s.currentParamValueStartIndex)))]
            ELSE s.currentToolUse
        b1 == IF s.currentToolUse # undefined
              THEN Append(s.contentBlocks, tool)
              ELSE s.contentBlocks
    IN  IF s.currentTextContent # undefined
        THEN Append(b1, [s.currentTextContent EXCEPT !.partial = textPartial])
        ELSE IF guarded THEN b1 ELSE Append(b1, s.currentTextContent)

\* endOfBuffer reporting the open text span as complete
endOfBufferClosesText(s) == endOfBufferVariant(s, FALSE, TRUE, TRUE)

\* endOfBuffer pushing currentTextContent unconditionally
endOfBufferNoGuard(s) == endOfBufferVariant(s, TRUE, FALSE, TRUE)

\* endOfBuffer leaving out the parameter that is still open
endOfBufferDropsOpenParam(s) == endOfBufferVariant(s, TRUE, TRUE, FALSE)

\* endOfBuffer leaving out an open text span whose content is empty
endOfBufferSkipsEmptyText(s) ==
    LET b1 == endOfBufferVariant([s EXCEPT !.currentTextContent = undefined],
                                 TRUE, TRUE, TRUE)
    IN  IF s.currentTextContent # undefined /\ s.currentTextContent.content # <<>>
        THEN Append(b1, s.currentTextContent)
        ELSE b1

\* the code after the loop: the open tool, then the open text, are appended
endOfBuffer(s) ==
    LET tool ==
            IF s.currentParamName # <<>>
            THEN [s.currentToolUse EXCEPT !.params =
                     SetParam(@, s.currentParamName,
                              trim(sliceFrom(s.accumulator, s.currentParamValueStartIndex)))]
            ELSE s.currentToolUse
        b1 == IF s.currentToolUse # undefined
              THEN Append(s.contentBlocks, tool)
              ELSE s.contentBlocks
    IN  IF s.currentTextContent # undefined
        THEN Append(b1, s.currentTextContent)
        ELSE b1

RECURSIVE scanFrom(_, _)
\* the locals after the loop has run from state s to the end of msg
scanFrom(s, msg) ==
    IF s.i < Len(msg) THEN scanFrom(loopBody(s, msg[s.i + 1]), msg) ELSE s

\* the locals after the whole loop
scanAll(msg) == scanFrom(InitialScan, msg)

\* the function as a whole
parseAssistantMessage(msg) == endOfBuffer(scanAll(msg))

----------------------------------------------------------------------------
(* The turn: text events are appended to the buffer and the whole buffer   *)
(* is parsed again after each.                                             *)

lt == "<"

\* a record without fields: an object none of whose optional fields is set
NoFields == [f \in {} |-> 0]

\* the usage totals at the start of a turn: the cache totals are unset
InitialTotals == [inputTokens |-> 0, outputTokens |-> 0]

\* no adapter is in use
\* completePrompt was not called
NoCompletion == [state |-> "none"]

NoProvider ==
    /\ handler = "none"
    /\ options = NoFields
    /\ messages = <<>>
    /\ requests = <<>>
    /\ delivered = <<>>
    /\ events = <<>>
    /\ stream = "none"
    /\ outcome = "idle"
    /\ totals = InitialTotals
    /\ completion = NoCompletion

\* no task of the webview provider
NoTasks ==
    /\ cline = 0
    /\ instances = <<>>
    /\ calls = <<>>
    /\ taskHistory = <<>>

\* utils/sound as loaded: sound disabled, nothing played
NoSound ==
    /\ isSoundEnabled = FALSE
    /\ lastPlayedTime = 0
    /\ clock = 0
    /\ played = <<>>
    /\ playing = 0
    /\ shown = <<>>

\* the extension host is not in use
NoHost == NoTasks /\ NoSound

\* the text events a provider may deliver
Chunks ==
    { OpeningTag(read_file), ClosingTag(read_file),
      OpeningTag(write_to_file) \o OpeningTag(content), ClosingTag(content),
      ClosingTag(write_to_file),
      OpeningTag(path), ClosingTag(path),
      <<"a">>, <<" ">>, <<lt, "/", "p", "a">> }

\* a text event arrives: it is appended and parseAssistantMessage is entered
ReceiveText(chunk) ==
    /\ pc = "idle"
    /\ nChunks < MaxChunks
    /\ assistantMessage' = assistantMessage \o chunk
    /\ nChunks' = nChunks + 1
    /\ scan' = enterParse(scan)
    /\ pc' = "parse"
    /\ UNCHANGED assistantMessageContent
    /\ UNCHANGED <<providerVars, hostVars>>

\* parseAssistantMessage is entered again on the same buffer
Reparse ==
    /\ pc = "idle"
    /\ scan' = enterParse(scan)
    /\ pc' = "parse"
    /\ UNCHANGED <<assistantMessage, assistantMessageContent, nChunks>>
    /\ UNCHANGED <<providerVars, hostVars>>

\* one iteration of the loop
LoopIteration ==
    /\ pc = "parse"
    /\ scan.i < Len(assistantMessage)
    /\ scan' = loopBody(scan, assistantMessage[scan.i + 1])
    /\ UNCHANGED <<assistantMessage, pc, assistantMessageContent, nChunks>>
    /\ UNCHANGED <<providerVars, hostVars>>

\* the loop is over: the function returns its block list
EndOfBuffer ==
    /\ pc = "parse"
    /\ scan.i >= Len(assistantMessage)
    /\ assistantMessageContent' = endOfBuffer(scan)
    /\ pc' = "idle"
    /\ UNCHANGED <<assistantMessage, scan, nChunks>>
    /\ UNCHANGED <<providerVars, hostVars>>

Init ==
    /\ assistantMessage = <<>>
    /\ scan = InitialScan
    /\ pc = "idle"
    /\ assistantMessageContent = <<>>
    /\ nChunks = 0
    /\ NoProvider
    /\ NoHost

Next ==
    \/ \E chunk \in Chunks : ReceiveText(chunk)
    \/ Reparse
    \/ LoopIteration
    \/ EndOfBuffer

Spec == Init /\ [][Next]_vars

----------------------------------------------------------------------------
(* The function on its own: one call on a buffer drawn from the shapes the *)
(* properties of the parser speak of.                                      *)

\* texts without any delimiter
Texts == { <<>>, <<"a">>, <<"a", " ", "b">>, <<" ", "a", "\n">> }

\* parameter values of the partial-tail buffers
Values == { <<"v">>, <<" ", "v", " ">> }

\* names that are not in toolUseNames
UnknownNames ==
    { <<"t", "o", "o", "l">>, path, <<"r", "e", "a", "d", "_", "f", "i", "l">>,
      <<"R", "e", "a", "d", "_", "f", "i", "l", "e">>,
      <<"r", "e", "a", "d", "_", "f", "i", "l", "e", "s">> }

\* pieces of a file payload
PayloadPieces == { <<"x">>, <<"\n">>, ClosingTag(content), OpeningTag(content) }

Range(f) == {f[k] : k \in DOMAIN f}

RECURSIVE Flatten(_)
\* the concatenation of a sequence of strings
Flatten(ss) == IF ss = <<>> THEN <<>> ELSE Head(ss) \o Flatten(Tail(ss))

\* the sequences of at most n elements of S
SeqsUpTo(S, n) == UNION {[1..m -> S] : m \in 0..n}

\* <p>v</p>
Param(p, v) == OpeningTag(p) \o v \o ClosingTag(p)

\* "a <T><p>v</p></T> b"
RoundTrip(T, p, a, v, b) ==
    a \o <<" ">> \o OpeningTag(T) \o Param(p, v) \o ClosingTag(T) \o <<" ">> \o b

\* <T> and complete parameters, no </T>; ps is a sequence of <<p, v>>
PartialTail(T, ps) ==
    OpeningTag(T) \o Flatten([k \in 1..Len(ps) |-> Param(ps[k][1], ps[k][2])])

\* <X>t</X>
Tagged(X, t) == OpeningTag(X) \o t \o ClosingTag(X)

\* a complete write_to_file span around a payload
WriteSpan(payload) ==
    OpeningTag(write_to_file) \o Param(content, payload) \o ClosingTag(write_to_file)

\* <T><p>v1</p>v2</p>, closed by </T> or not
SecondClose(T, p, v1, v2, closed) ==
    OpeningTag(T) \o Param(p, v1) \o v2 \o ClosingTag(p)
        \o (IF closed THEN ClosingTag(T) ELSE <<>>)

ParamLists == SeqsUpTo(Range(toolParamNames) \X Values, MaxParams) \ {<<>>}

Payloads == {Flatten(ps) : ps \in SeqsUpTo(PayloadPieces, MaxPayload)}

Inputs ==
    {RoundTrip(T, p, a, v, b) :
        T \in Range(toolUseNames), p \in Range(toolParamNames),
        a \in Texts, v \in Texts, b \in Texts}
    \cup {PartialTail(T, ps) : T \in Range(toolUseNames), ps \in ParamLists}
    \cup {Tagged(X, t) : X \in UnknownNames, t \in Texts}
    \cup {WriteSpan(payload) : payload \in Payloads}
    \cup {SecondClose(T, p, v1, v2, closed) :
            T \in Range(toolUseNames), p \in Range(toolParamNames),
            v1 \in Texts, v2 \in Texts, closed \in BOOLEAN}

ParseInit ==
    /\ assistantMessage \in Inputs
    /\ scan = InitialScan
    /\ pc = "parse"
    /\ assistantMessageContent = <<>>
    /\ nChunks = 0
    /\ NoProvider
    /\ NoHost

ParseNext ==
    \/ Reparse
    \/ LoopIteration
    \/ EndOfBuffer

ParseSpec == ParseInit /\ [][ParseNext]_vars

----------------------------------------------------------------------------
(* The function on buffers made of delimiters in any order: the inputs on  *)
(* which the transitions of the scan are decided.                          *)

\* pieces of a buffer
MaxPieces == 3

\* delimiters of tools and parameters, a text and a truncated delimiter
Pieces ==
    { OpeningTag(read_file), ClosingTag(read_file), OpeningTag(write_to_file),
      OpeningTag(path), ClosingTag(path),
      OpeningTag(content), ClosingTag(content),
      <<" ", "a">>, <<lt, "/", "p", "a">> }

\* <T><p>v1</p><p>v2</p>: the same parameter twice
Repeated(T, p, v1, v2) == OpeningTag(T) \o Param(p, v1) \o Param(p, v2)

\* <T><X>: an opening tag of another name inside a tool
Inside(T, X) == OpeningTag(T) \o OpeningTag(X)

\* buffers of white space
Blanks == { <<" ">>, <<" ", "\n">>, <<"\f", "U+000B", "U+00A0">> }

ScanInputs ==
    {Flatten(ps) : ps \in SeqsUpTo(Pieces, MaxPieces)}
    \cup {Repeated(T, p, v1, v2) :
            T \in Range(toolUseNames), p \in Range(toolParamNames),
            v1 \in {<<" ", "a">>, <<"b">>}, v2 \in {<<"b", " ">>, <<>>}}
    \cup {Inside(T, X) : T \in Range(toolUseNames), X \in UnknownNames}
    \cup Blanks

ScanInit ==
    /\ assistantMessage \in ScanInputs
    /\ scan = InitialScan
    /\ pc = "parse"
    /\ assistantMessageContent = <<>>
    /\ nChunks = 0
    /\ NoProvider
    /\ NoHost

ScanSpec == ScanInit /\ [][ParseNext]_vars

----------------------------------------------------------------------------
(* One call of parseAssistantMessage on buffers of opening delimiters.     *)

\* opening delimiters of tools and parameters and a closing delimiter
TagPieces ==
    { OpeningTag(read_file), OpeningTag(write_to_file), OpeningTag(path),
      OpeningTag(content), ClosingTag(read_file) }

\* <p><q><T> and a character: two parameter tags, as text, before a tool
Before(p, q, T) == OpeningTag(p) \o OpeningTag(q) \o OpeningTag(T) \o <<" ">>

TagInputs ==
    {Flatten(ps) : ps \in SeqsUpTo(TagPieces, MaxPieces)}
    \cup {Before(p, q, T) : p \in Range(toolParamNames), q \in Range(toolParamNames),
                             T \in Range(toolUseNames)}

TagInit ==
    /\ assistantMessage \in TagInputs
    /\ scan = InitialScan
    /\ pc = "parse"
    /\ assistantMessageContent = <<>>
    /\ nChunks = 0
    /\ NoProvider
    /\ NoHost

TagSpec == TagInit /\ [][ParseNext]_vars

----------------------------------------------------------------------------
(* Objects with optional fields: an unset field is not in the domain.      *)

Has(r, f) == f \in DOMAIN r

With(r, f, v) == [x \in DOMAIN r \cup {f} |-> IF x = f THEN v ELSE r[x]]

Merge(r1, r2) ==
    [x \in DOMAIN r1 \cup DOMAIN r2 |-> IF x \in DOMAIN r1 THEN r1[x] ELSE r2[x]]

\* r.f ?? d
Nullish(r, f, d) == IF Has(r, f) THEN r[f] ELSE d

\* r.f || d, for a numeric field
OrNumber(r, f, d) == IF Has(r, f) /\ r[f] # 0 THEN r[f] ELSE d

\* the objects in which f is unset or has a value of V
Optional(f, V) == {NoFields} \cup {With(NoFields, f, v) : v \in V}

----------------------------------------------------------------------------
(* The Anthropic adapter: getModel and the request of createMessage        *)
(* (api/providers/anthropic.ts).                                           *)

ANTHROPIC_DEFAULT_TEMPERATURE == 0

thinkingModelId == "claude-3-7-sonnet-20250219:thinking"

\* the model table of shared/api: the models the adapter names
anthropicModels ==
    [id \in { thinkingModelId, "claude-3-7-sonnet-20250219",
              "claude-3-5-sonnet-20241022", "claude-3-5-haiku-20241022",
              "claude-3-opus-20240229", "claude-3-haiku-20240307" } |->
        IF id = thinkingModelId
        THEN [maxTokens |-> 64000, thinking |-> TRUE]
        ELSE IF id \in {"claude-3-opus-20240229", "claude-3-haiku-20240307"}
             THEN [maxTokens |-> 4096]
             ELSE [maxTokens |-> 8192]]

anthropicDefaultModelId == "claude-3-7-sonnet-20250219"

\* Math.floor(maxTokens * 0.8)
maxBudgetTokens(maxTokens) == (maxTokens * 8) \div 10

\* the budget_tokens of the thinking configuration
budgetTokens(opts, maxTokens) ==
    Max(Min(Nullish(opts, "modelMaxThinkingTokens", maxBudgetTokens(maxTokens)),
            maxBudgetTokens(maxTokens)),
        1024)

\* the temperature of a model with the thinking capability
thinkingTemperatureConfigured(temperature) == temperature
thinkingTemperature(temperature) == 1

\* the id returned for the key `id` of the model table: the virtual id of
\* the thinking variant stands for claude-3-7-sonnet-20250219
modelIdSentAsConfigured(id) == id
modelIdSent(id) ==
    IF id = thinkingModelId THEN "claude-3-7-sonnet-20250219" ELSE id

\* the properties every object literal inherits from Object.prototype
objectPrototypeKeys ==
    { "constructor", "__proto__", "hasOwnProperty", "isPrototypeOf",
      "propertyIsEnumerable", "toLocaleString", "toString", "valueOf",
      "__defineGetter__", "__defineSetter__", "__lookupGetter__",
      "__lookupSetter__" }

\* modelId in anthropicModels: the operator finds inherited properties too
inAnthropicModels(id) ==
    id \in DOMAIN anthropicModels \cup objectPrototypeKeys

\* anthropicModels[id]: for an inherited property a value of the prototype,
\* which has neither maxTokens nor thinking
anthropicModelInfo(id) ==
    IF id \in DOMAIN anthropicModels
    THEN anthropicModels[id]
    ELSE [inherited |-> id]

getModel(opts) ==
    LET temperature ==
            Nullish(opts, "modelTemperature", ANTHROPIC_DEFAULT_TEMPERATURE)
    IN  IF /\ Has(opts, "apiModelId")
           /\ opts.apiModelId # ""
           /\ inAnthropicModels(opts.apiModelId)
        THEN LET info == anthropicModelInfo(opts.apiModelId)
                 id == modelIdSent(opts.apiModelId)
                 maxTokens ==
                     OrNumber(opts, "modelMaxTokens",
                              OrNumber(info, "maxTokens", 8192))
             IN  IF Has(info, "thinking") /\ info.thinking
                 THEN [id |-> id, info |-> info,
                       temperature |-> thinkingTemperature(temperature),
                       maxTokens |-> maxTokens,
                       thinking |->
                           [type |-> "enabled",
                            budget_tokens |-> budgetTokens(opts, maxTokens)]]
                 ELSE [id |-> id, info |-> info, temperature |-> temperature,
                       maxTokens |-> maxTokens]
        ELSE LET info == anthropicModels[anthropicDefaultModelId]
             IN  [id |-> anthropicDefaultModelId, info |-> info,
                  temperature |-> temperature,
                  maxTokens |->
                      OrNumber(opts, "modelMaxTokens",
                               OrNumber(info, "maxTokens", 8192))]

\* the models whose requests carry cache breakpoints
cachingModelIds ==
    { "claude-3-7-sonnet-20250219", "claude-3-5-sonnet-20241022",
      "claude-3-5-haiku-20241022", "claude-3-opus-20240229",
      "claude-3-haiku-20240307" }

cacheControl == [type |-> "ephemeral"]

\* the content of a message is a string or an array of parts
IsString(body) == Has(body, "string")

\* the indices (from 0) of the messages of the user, in order
userMsgIndices(msgs) ==
    SelectSeq([k \in 1..Len(msgs) |-> k - 1], LAMBDA ix : msgs[ix + 1].role = "user")

\* a[ix] ?? -1, for an index from 0
AtOr(a, ix) == IF ix >= 0 /\ ix < Len(a) THEN a[ix + 1] ELSE -1

lastUserMsgIndex(msgs) == AtOr(userMsgIndices(msgs), Len(userMsgIndices(msgs)) - 1)

secondLastMsgUserIndex(msgs) ==
    AtOr(userMsgIndices(msgs), Len(userMsgIndices(msgs)) - 2)

\* the content of a message that carries a cache breakpoint
markContent(body) ==
    IF IsString(body)
    THEN [parts |-> << [type |-> "text", text |-> body.string,
                        cache_control |-> cacheControl] >>]
    ELSE [parts |->
             [contentIndex \in 1..Len(body.parts) |->
                 IF contentIndex - 1 = Len(body.parts) - 1
                 THEN With(body.parts[contentIndex], "cache_control", cacheControl)
                 ELSE body.parts[contentIndex]]]

\* the messages of the request of a model with prompt caching
markMessagesLastOnly(msgs) ==
    [k \in 1..Len(msgs) |->
        IF k - 1 = lastUserMsgIndex(msgs)
        THEN [role |-> msgs[k].role, content |-> markContent(msgs[k].content)]
        ELSE msgs[k]]
markMessages(msgs) ==
    [k \in 1..Len(msgs) |->
        IF k - 1 = lastUserMsgIndex(msgs) \/ k - 1 = secondLastMsgUserIndex(msgs)
        THEN [role |-> msgs[k].role, content |-> markContent(msgs[k].content)]
        ELSE msgs[k]]

\* the request createMessage sends
anthropicRequest(opts, msgs) ==
    LET model == getModel(opts)
        base == [model |-> model.id, max_tokens |-> model.maxTokens,
                 temperature |-> model.temperature, stream |-> TRUE]
    IN  IF model.id \in cachingModelIds
        THEN LET marked == With(With(base, "system_cache_control", cacheControl),
                                "messages", markMessages(msgs))
             IN  IF Has(model, "thinking")
                 THEN With(marked, "thinking", model.thinking)
                 ELSE marked
        ELSE With(base, "messages", msgs)

\* createMessage up to the creation of the provider stream
AnthropicCreate ==
    /\ handler = "anthropic"
    /\ outcome = "idle"
    /\ completion = NoCompletion
    /\ requests' = Append(requests, anthropicRequest(options, messages))
    /\ stream' = "open"
    /\ outcome' = "streaming"
    /\ UNCHANGED <<handler, options, messages, delivered, events, totals,
                   completion>>
    /\ UNCHANGED <<parserVars, hostVars>>

\* the request completePrompt sends, lines 229-236
anthropicCompletion(opts, prompt) ==
    LET model == getModel(opts)
        base == [model |-> model.id, max_tokens |-> model.maxTokens,
                 temperature |-> model.temperature,
                 messages |-> << [role |-> "user",
                                  content |-> [string |-> prompt]] >>,
                 stream |-> FALSE]
    IN  IF Has(model, "thinking")
        THEN With(base, "thinking", model.thinking)
        ELSE base

\* lines 238-239: the text of the first block of type text, or ""
anthropicCompletionText(message) ==
    IF \E k \in 1..Len(message.content) : message.content[k].type = "text"
    THEN message.content[
             CHOOSE k \in 1..Len(message.content) :
                 /\ message.content[k].type = "text"
                 /\ \A j \in 1..(k - 1) : message.content[j].type # "text"].text
    ELSE ""

\* the prompts given to completePrompt
Prompts == {"p"}

\* the answers to the request of completePrompt
AnthropicMessages ==
    { [content |-> c] :
        c \in { <<>>,
                << [type |-> "text", text |-> "a"] >>,
                << [type |-> "thinking", thinking |-> "t"],
                   [type |-> "text", text |-> "a"],
                   [type |-> "text", text |-> "b"] >>,
                << [type |-> "tool_use"] >> } }

\* what a failing request rejects with: an Error, or another value
Rejections ==
    { [isError |-> TRUE, message |-> "request failed"],
      [isError |-> FALSE, message |-> "aborted"] }

\* completePrompt up to its await of the request, lines 226-236
AnthropicCompletePrompt(prompt) ==
    /\ handler = "anthropic"
    /\ outcome = "idle"
    /\ completion = NoCompletion
    /\ requests' = Append(requests, anthropicCompletion(options, prompt))
    /\ completion' = [state |-> "pending"]
    /\ UNCHANGED <<handler, options, messages, delivered, events, stream,
                   outcome, totals>>
    /\ UNCHANGED <<parserVars, hostVars>>

\* the request of completePrompt is answered, lines 238-239
AnthropicCompletionReturns(message) ==
    /\ handler = "anthropic"
    /\ completion.state = "pending"
    /\ completion' = [state |-> "returned",
                      text |-> anthropicCompletionText(message)]
    /\ UNCHANGED <<handler, options, messages, requests, delivered, events,
                   stream, outcome, totals>>
    /\ UNCHANGED <<parserVars, hostVars>>

\* the request of completePrompt fails: nothing catches the rejection
AnthropicCompletionFails(error) ==
    /\ handler = "anthropic"
    /\ completion.state = "pending"
    /\ completion' = [state |-> "thrown", error |-> error]
    /\ UNCHANGED <<handler, options, messages, requests, delivered, events,
                   stream, outcome, totals>>
    /\ UNCHANGED <<parserVars, hostVars>>

----------------------------------------------------------------------------
(* createMessage of the Anthropic adapter on its own: the request built    *)
(* from the options and the history.                                       *)

\* parts of the content of a message
MaxParts == 2

\* no call of the parser is running
NoParser ==
    /\ assistantMessage = <<>>
    /\ scan = InitialScan
    /\ pc = "idle"
    /\ assistantMessageContent = <<>>
    /\ nChunks = 0

\* the options getModel reads
ModelOptions ==
    { Merge(Merge(a, b), Merge(c, d)) :
        a \in Optional("apiModelId",
                       { thinkingModelId, "claude-3-7-sonnet-20250219",
                         "claude-3-opus-20240229", "gpt-4o", "constructor",
                         "" }),
        b \in Optional("modelMaxTokens", {0, 1000, 1280, 16384}),
        c \in Optional("modelMaxThinkingTokens", {0, 1024, 4096, 100000}),
        d \in Optional("modelTemperature", {0, 2}) }

\* the options that select each of the models of the table
TableOptions == Optional("apiModelId", DOMAIN anthropicModels)

Contents ==
    { [string |-> "s"] } \cup
    { [parts |-> [k \in 1..n |-> [type |-> "text", text |-> "p"]]] :
        n \in 0..MaxParts }

Messages == [role : {"user", "assistant"}, content : Contents]

Histories == SeqsUpTo(Messages, MaxHistory)

\* the history of the first request of a task
FirstTurn == << [role |-> "user", content |-> [string |-> "s"]] >>

NoStream ==
    /\ requests = <<>>
    /\ delivered = <<>>
    /\ events = <<>>
    /\ stream = "none"
    /\ outcome = "idle"
    /\ totals = InitialTotals
    /\ completion = NoCompletion

RequestInit ==
    /\ NoParser
    /\ NoHost
    /\ handler = "anthropic"
    /\ \/ options \in ModelOptions /\ messages = FirstTurn
       \/ options \in TableOptions /\ messages \in Histories
    /\ NoStream

RequestNext ==
    \/ AnthropicCreate
    \/ \E prompt \in Prompts : AnthropicCompletePrompt(prompt)
    \/ \E message \in AnthropicMessages : AnthropicCompletionReturns(message)
    \/ \E error \in Rejections : AnthropicCompletionFails(error)

RequestSpec == RequestInit /\ [][RequestNext]_vars

----------------------------------------------------------------------------
(* The stream loops of the adapters: the events of each chunk.             *)

\* r with field f set to src.g || undefined
orUndefinedKeepsZero(r, f, src, g) ==
    IF Has(src, g) THEN With(r, f, src[g]) ELSE r
orUndefined(r, f, src, g) ==
    IF Has(src, g) /\ src[g] # 0 THEN With(r, f, src[g]) ELSE r

\* the events the Anthropic loop yields for one chunk
messageStopEventsDone(chunk) == << [type |-> "done"] >>
messageStopEvents(chunk) == <<>>

anthropicEvents(chunk) ==
    CASE chunk.type = "message_start" ->
            LET usage == chunk.message.usage
            IN  << orUndefined(
                     orUndefined(
                       [type |-> "usage",
                        inputTokens |-> OrNumber(usage, "input_tokens", 0),
                        outputTokens |-> OrNumber(usage, "output_tokens", 0)],
                       "cacheWriteTokens", usage, "cache_creation_input_tokens"),
                     "cacheReadTokens", usage, "cache_read_input_tokens") >>
      [] chunk.type = "message_delta" ->
            << [type |-> "usage", inputTokens |-> 0,
                outputTokens |-> OrNumber(chunk.usage, "output_tokens", 0)] >>
      [] chunk.type = "message_stop" -> messageStopEvents(chunk)
      [] chunk.type = "content_block_start" ->
            CASE chunk.content_block.type = "thinking" ->
                    (IF chunk.index > 0
                     THEN << [type |-> "reasoning", text |-> "\n"] >>
                     ELSE <<>>)
                    \o << [type |-> "reasoning",
                           text |-> chunk.content_block.thinking] >>
              [] chunk.content_block.type = "text" ->
                    (IF chunk.index > 0
                     THEN << [type |-> "text", text |-> "\n"] >>
                     ELSE <<>>)
                    \o << [type |-> "text", text |-> chunk.content_block.text] >>
              [] OTHER -> <<>>
      [] chunk.type = "content_block_delta" ->
            CASE chunk.delta.type = "thinking_delta" ->
                    << [type |-> "reasoning", text |-> chunk.delta.thinking] >>
              [] chunk.delta.type = "text_delta" ->
                    << [type |-> "text", text |-> chunk.delta.text] >>
              [] OTHER -> <<>>
      [] chunk.type = "content_block_stop" -> <<>>
      [] OTHER -> <<>>

\* OpenAiHandler.processUsageMetrics
processUsageMetrics(usage) ==
    [type |-> "usage",
     inputTokens |-> OrNumber(usage, "prompt_tokens", 0),
     outputTokens |-> OrNumber(usage, "completion_tokens", 0)]

\* chunk.choices[0]?.delta ?? {}
deltaOf(chunk) ==
    IF Len(chunk.choices) > 0 /\ Has(chunk.choices[1], "delta")
    THEN chunk.choices[1].delta
    ELSE NoFields

\* the events the streaming loop of the OpenAI adapter yields for one chunk
openAiEventsUsageFirst(chunk) ==
    (IF Has(chunk, "usage") THEN << processUsageMetrics(chunk.usage) >> ELSE <<>>)
    \o (IF Has(deltaOf(chunk), "content") /\ deltaOf(chunk).content # ""
        THEN << [type |-> "text", text |-> deltaOf(chunk).content] >>
        ELSE <<>>)
    \o (IF /\ Has(deltaOf(chunk), "reasoning_content")
           /\ deltaOf(chunk).reasoning_content # ""
        THEN << [type |-> "reasoning", text |-> deltaOf(chunk).reasoning_content] >>
        ELSE <<>>)
\* the streaming loop yielding the content and the reasoning content that
\* are present, empty or not
openAiEventsAnyContent(chunk) ==
    LET delta == deltaOf(chunk)
    IN  (IF Has(delta, "content")
         THEN << [type |-> "text", text |-> delta.content] >>
         ELSE <<>>)
        \o (IF Has(delta, "reasoning_content")
            THEN << [type |-> "reasoning", text |-> delta.reasoning_content] >>
            ELSE <<>>)
        \o (IF Has(chunk, "usage")
            THEN << processUsageMetrics(chunk.usage) >>
            ELSE <<>>)
openAiEvents(chunk) ==
    LET delta == deltaOf(chunk)
    IN  (IF Has(delta, "content") /\ delta.content # ""
         THEN << [type |-> "text", text |-> delta.content] >>
         ELSE <<>>)
        \o (IF Has(delta, "reasoning_content") /\ delta.reasoning_content # ""
            THEN << [type |-> "reasoning", text |-> delta.reasoning_content] >>
            ELSE <<>>)
        \o (IF Has(chunk, "usage")
            THEN << processUsageMetrics(chunk.usage) >>
            ELSE <<>>)

\* response.choices[0]?.message.content || ""
responseContent(response) ==
    IF /\ Len(response.choices) > 0
       /\ Has(response.choices[1].message, "content")
    THEN response.choices[1].message.content
    ELSE ""

\* the events of the non-streaming branch of the OpenAI adapter
openAiResponseEventsTextOnly(response) ==
    << [type |-> "text", text |-> responseContent(response)] >>
openAiResponseEvents(response) ==
    << [type |-> "text", text |-> responseContent(response)],
       processUsageMetrics(Nullish(response, "usage", NoFields)) >>

\* the request the OpenAI adapter sends
openAiRequest(opts, msgs, streaming) ==
    IF streaming
    THEN [model |-> Nullish(opts, "openAiModelId", ""), stream |-> TRUE,
          include_usage |-> TRUE, history |-> Len(msgs)]
    ELSE [model |-> Nullish(opts, "openAiModelId", ""), history |-> Len(msgs)]

\* this.options.openAiStreamingEnabled ?? true
openAiStreamingEnabled(opts) == Nullish(opts, "openAiStreamingEnabled", TRUE)

----------------------------------------------------------------------------
(* The consumer of the events: the running usage totals of the turn.       *)

\* the total f with the count g of the event added, when the event has it
addCountOrZero(t, f, e, g) == With(t, f, Nullish(t, f, 0) + Nullish(e, g, 0))
addCount(t, f, e, g) ==
    IF Has(e, g) THEN With(t, f, Nullish(t, f, 0) + e[g]) ELSE t

accumulate(t, e) ==
    IF e.type = "usage"
    THEN addCount(addCount(addCount(addCount(t,
             "inputTokens", e, "inputTokens"),
             "outputTokens", e, "outputTokens"),
             "cacheWriteTokens", e, "cacheWriteTokens"),
             "cacheReadTokens", e, "cacheReadTokens")
    ELSE t

RECURSIVE accumulateAll(_, _)
accumulateAll(t, es) ==
    IF es = <<>> THEN t ELSE accumulateAll(accumulate(t, Head(es)), Tail(es))

----------------------------------------------------------------------------
(* createMessage as a generator: the request, the chunks, the end.         *)

\* what the Anthropic stream may deliver
AnthropicUsages ==
    { [input_tokens |-> 10, output_tokens |-> 0],
      [input_tokens |-> 0, output_tokens |-> 7,
       cache_creation_input_tokens |-> 0, cache_read_input_tokens |-> 3],
      [cache_creation_input_tokens |-> 2, cache_read_input_tokens |-> 0] }

AnthropicChunks ==
    { [type |-> "message_start", message |-> [usage |-> u]] : u \in AnthropicUsages }
    \cup { [type |-> "message_delta", usage |-> [output_tokens |-> n]] : n \in {0, 5} }
    \cup { [type |-> "message_stop"], [type |-> "content_block_stop"] }
    \cup { [type |-> "content_block_start", index |-> 0,
            content_block |-> [type |-> "text", text |-> ""]],
           [type |-> "content_block_start", index |-> 1,
            content_block |-> [type |-> "text", text |-> "a"]],
           [type |-> "content_block_start", index |-> 0,
            content_block |-> [type |-> "thinking", thinking |-> "t"]],
           [type |-> "content_block_start", index |-> 1,
            content_block |-> [type |-> "thinking", thinking |-> "t"]],
           [type |-> "content_block_start", index |-> 1,
            content_block |-> [type |-> "redacted_thinking"]] }
    \cup { [type |-> "content_block_delta", delta |-> d] :
             d \in { [type |-> "text_delta", text |-> "a"],
                     [type |-> "thinking_delta", thinking |-> "t"],
                     [type |-> "signature_delta"] } }

\* what the OpenAI stream may deliver
OpenAiUsages ==
    { [prompt_tokens |-> 10, completion_tokens |-> 5], [prompt_tokens |-> 10] }

OpenAiChunks ==
    { [choices |-> << [delta |-> d] >>] :
        d \in { NoFields, [content |-> "a"], [content |-> ""],
                [reasoning_content |-> "r"], [reasoning_content |-> ""],
                [content |-> "a", reasoning_content |-> "r"] } }
    \cup { [choices |-> <<>>, usage |-> u] : u \in OpenAiUsages }
    \cup { [choices |-> << [delta |-> [content |-> "a", reasoning_content |-> "r"]] >>,
            usage |-> [prompt_tokens |-> 10, completion_tokens |-> 5]] }

\* the responses of a request without streaming
OpenAiResponses ==
    { [choices |-> << [message |-> m] >>, usage |-> u] :
        m \in {[content |-> "a"], [content |-> ""], NoFields}, u \in OpenAiUsages }
    \cup { [choices |-> << [message |-> [content |-> "a"]] >>],
           [choices |-> <<>>] }

\* the events the adapter in use yields for one chunk
chunkEvents(chunk) ==
    IF handler = "anthropic" THEN anthropicEvents(chunk) ELSE openAiEvents(chunk)

\* the events of a sequence of chunks, chunk after chunk
EventsOf(chunks) ==
    Flatten([k \in 1..Len(chunks) |-> chunkEvents(chunks[k])])

\* the OpenAI adapter without streaming
NonStreaming == handler = "openai" /\ ~openAiStreamingEnabled(options)

\* the events createMessage yields for what the provider has delivered: the
\* generator is suspended at each yield, so `events` is a prefix of them
generated ==
    IF NonStreaming
    THEN IF delivered = <<>>
         THEN <<>>
         ELSE openAiResponseEvents(delivered[1])
    ELSE EventsOf(delivered)

\* createMessage has yielded all of them: it waits for the provider
awaitsProvider == Len(events) = Len(generated)

\* the first of the events es, if any: the generator runs to its next yield
upToFirstYield(es) == IF es = <<>> THEN <<>> ELSE << Head(es) >>

\* the streaming branch of the OpenAI adapter up to the creation of the stream
OpenAiCreate ==
    /\ handler = "openai"
    /\ outcome = "idle"
    /\ completion = NoCompletion
    /\ openAiStreamingEnabled(options)
    /\ requests' = Append(requests, openAiRequest(options, messages, TRUE))
    /\ stream' = "open"
    /\ outcome' = "streaming"
    /\ UNCHANGED <<handler, options, messages, delivered, events, totals,
                   completion>>
    /\ UNCHANGED <<parserVars, hostVars>>

\* the non-streaming branch of the OpenAI adapter up to its await of the
\* request, lines 124-138
OpenAiRequest ==
    /\ handler = "openai"
    /\ outcome = "idle"
    /\ completion = NoCompletion
    /\ ~openAiStreamingEnabled(options)
    /\ requests' = Append(requests, openAiRequest(options, messages, FALSE))
    /\ outcome' = "streaming"
    /\ UNCHANGED <<handler, options, messages, delivered, events, stream,
                   totals, completion>>
    /\ UNCHANGED <<parserVars, hostVars>>

\* the non-streaming branch, the request succeeding: the response arrives
\* and the text is yielded, line 140
OpenAiNonStreaming(response) ==
    /\ NonStreaming
    /\ outcome = "streaming"
    /\ delivered = <<>>
    /\ delivered' = Append(delivered, response)
    /\ events' = events \o upToFirstYield(openAiResponseEvents(response))
    /\ totals' = accumulateAll(totals,
                               upToFirstYield(openAiResponseEvents(response)))
    /\ UNCHANGED <<handler, options, messages, requests, stream, outcome,
                   completion>>
    /\ UNCHANGED <<parserVars, hostVars>>

\* the non-streaming branch of the OpenAI adapter, the request failing
OpenAiRequestFails ==
    /\ NonStreaming
    /\ outcome = "streaming"
    /\ delivered = <<>>
    /\ stream' = "thrown"
    /\ outcome' = "error"
    /\ UNCHANGED <<handler, options, messages, requests, delivered, events,
                   totals, completion>>
    /\ UNCHANGED <<parserVars, hostVars>>

\* the non-streaming branch after its last yield: createMessage returns
OpenAiReturns ==
    /\ NonStreaming
    /\ outcome = "streaming"
    /\ delivered # <<>>
    /\ awaitsProvider
    /\ outcome' = "ended"
    /\ UNCHANGED <<handler, options, messages, requests, delivered, events,
                   stream, totals, completion>>
    /\ UNCHANGED <<parserVars, hostVars>>

\* the consumer asks for the next event and createMessage, suspended at a
\* yield, runs to its next yield
NextEvent ==
    /\ outcome = "streaming"
    /\ ~awaitsProvider
    /\ events' = Append(events, generated[Len(events) + 1])
    /\ totals' = accumulate(totals, generated[Len(events) + 1])
    /\ UNCHANGED <<handler, options, messages, requests, delivered, stream,
                   outcome, completion>>
    /\ UNCHANGED <<parserVars, hostVars>>

\* one iteration of the loop of the Anthropic adapter, up to its first yield
AnthropicChunk(chunk) ==
    /\ handler = "anthropic"
    /\ outcome = "streaming"
    /\ stream = "open"
    /\ awaitsProvider
    /\ Len(delivered) < MaxStreamChunks
    /\ delivered' = Append(delivered, chunk)
    /\ events' = events \o upToFirstYield(anthropicEvents(chunk))
    /\ totals' = accumulateAll(totals, upToFirstYield(anthropicEvents(chunk)))
    /\ UNCHANGED <<handler, options, messages, requests, stream, outcome,
                   completion>>
    /\ UNCHANGED <<parserVars, hostVars>>

\* one iteration of the streaming loop of the OpenAI adapter, up to its
\* first yield
OpenAiChunk(chunk) ==
    /\ handler = "openai"
    /\ outcome = "streaming"
    /\ stream = "open"
    /\ awaitsProvider
    /\ Len(delivered) < MaxStreamChunks
    /\ delivered' = Append(delivered, chunk)
    /\ events' = events \o upToFirstYield(openAiEvents(chunk))
    /\ totals' = accumulateAll(totals, upToFirstYield(openAiEvents(chunk)))
    /\ UNCHANGED <<handler, options, messages, requests, stream, outcome,
                   completion>>
    /\ UNCHANGED <<parserVars, hostVars>>

\* the provider stream ends: the loop exits and createMessage returns
StreamEnd ==
    /\ outcome = "streaming"
    /\ stream = "open"
    /\ awaitsProvider
    /\ stream' = "done"
    /\ outcome' = "ended"
    /\ UNCHANGED <<handler, options, messages, requests, delivered, events,
                   totals, completion>>
    /\ UNCHANGED <<parserVars, hostVars>>

\* the provider stream throws: nothing catches it, createMessage throws
StreamErrorSwallowed ==
    /\ outcome = "streaming"
    /\ stream = "open"
    /\ awaitsProvider
    /\ stream' = "thrown"
    /\ outcome' = "ended"
    /\ UNCHANGED <<handler, options, messages, requests, delivered, events,
                   totals, completion>>
    /\ UNCHANGED <<parserVars, hostVars>>
StreamError ==
    /\ outcome = "streaming"
    /\ stream = "open"
    /\ awaitsProvider
    /\ stream' = "thrown"
    /\ outcome' = "error"
    /\ UNCHANGED <<handler, options, messages, requests, delivered, events,
                   totals, completion>>
    /\ UNCHANGED <<parserVars, hostVars>>

\* the request completePrompt sends, openai.ts 165-168
openAiCompletion(opts, prompt) ==
    [model |-> Nullish(opts, "openAiModelId", ""),
     messages |-> << [role |-> "user", content |-> prompt] >>]

\* openai.ts 172-177: an Error is thrown again with a prefixed message,
\* another value as it is
openAiCompletionError(error) ==
    IF error.isError
    THEN [isError |-> TRUE,
          message |-> "OpenAI completion error: " \o error.message]
    ELSE error

\* completePrompt up to its await of the request, openai.ts 163-170
OpenAiCompletePrompt(prompt) ==
    /\ handler = "openai"
    /\ outcome = "idle"
    /\ completion = NoCompletion
    /\ requests' = Append(requests, openAiCompletion(options, prompt))
    /\ completion' = [state |-> "pending"]
    /\ UNCHANGED <<handler, options, messages, delivered, events, stream,
                   outcome, totals>>
    /\ UNCHANGED <<parserVars, hostVars>>

\* the request of completePrompt is answered, openai.ts 171
OpenAiCompletionReturns(response) ==
    /\ handler = "openai"
    /\ completion.state = "pending"
    /\ completion' = [state |-> "returned", text |-> responseContent(response)]
    /\ UNCHANGED <<handler, options, messages, requests, delivered, events,
                   stream, outcome, totals>>
    /\ UNCHANGED <<parserVars, hostVars>>

\* the request of completePrompt fails, openai.ts 172-177
OpenAiCompletionFails(error) ==
    /\ handler = "openai"
    /\ completion.state = "pending"
    /\ completion' = [state |-> "thrown", error |-> openAiCompletionError(error)]
    /\ UNCHANGED <<handler, options, messages, requests, delivered, events,
                   stream, outcome, totals>>
    /\ UNCHANGED <<parserVars, hostVars>>

StreamInit ==
    /\ NoParser
    /\ NoHost
    /\ \/ /\ handler = "anthropic"
          /\ options = [apiModelId |-> "claude-3-5-sonnet-20241022"]
       \/ /\ handler = "openai"
          /\ options \in
               { Merge([openAiModelId |-> "gpt-4o"], o) :
                   o \in Optional("openAiStreamingEnabled", BOOLEAN) }
    /\ messages = FirstTurn
    /\ NoStream

StreamNext ==
    \/ AnthropicCreate
    \/ OpenAiCreate
    \/ OpenAiRequest
    \/ \E response \in OpenAiResponses : OpenAiNonStreaming(response)
    \/ OpenAiRequestFails
    \/ OpenAiReturns
    \/ \E chunk \in AnthropicChunks : AnthropicChunk(chunk)
    \/ \E chunk \in OpenAiChunks : OpenAiChunk(chunk)
    \/ NextEvent
    \/ StreamEnd
    \/ StreamError
    \/ \E prompt \in Prompts : AnthropicCompletePrompt(prompt)
    \/ \E message \in AnthropicMessages : AnthropicCompletionReturns(message)
    \/ \E error \in Rejections : AnthropicCompletionFails(error)
    \/ \E prompt \in Prompts : OpenAiCompletePrompt(prompt)
    \/ \E response \in OpenAiResponses : OpenAiCompletionReturns(response)
    \/ \E error \in Rejections : OpenAiCompletionFails(error)

StreamSpec == StreamInit /\ [][StreamNext]_vars

----------------------------------------------------------------------------
(* The webview provider's current task (core/webview/ClineProvider.ts).    *)
(* this.cline is 0 for undefined, else the index in `instances` of the     *)
(* task instance; a call in `calls` is [op, pc, item]: the method, the     *)
(* await it is suspended at, and its historyItem (0 for none).             *)

\* calls of provider methods started in one run
MaxCalls == 2

\* the other variables of the module are not in use
NoCore == NoParser /\ handler = "none" /\ options = NoFields /\ messages = <<>> /\ NoStream

\* a task instance as constructed: new Cline({ ... })
NewInstance(taskId) ==
    [taskId |-> taskId, aborted |-> FALSE, abandoned |-> FALSE,
     isStreaming |-> FALSE, didFinishAbortingStream |-> FALSE,
     isWaitingForFirstChunk |-> FALSE]

\* the taskId of the n-th instance when it is created for a new task
NewTaskId(n) == 10 + n

\* the ids of the items of the history h
Ids(h) == {h[k].id : k \in 1..Len(h)}

\* taskHistory.filter((task) => task.id !== id)
withoutId(h, id) == SelectSeq(h, LAMBDA task : task.id # id)

\* this.cline?.abortTask(): the instances once the current one is told to abort
abortCurrent(insts, current) ==
    IF current = 0 THEN insts ELSE [insts EXCEPT ![current].aborted = TRUE]

\* if (this.cline) { this.cline.abandoned = true }
abandonCurrentSkipped(insts, current) == insts
abandonCurrent(insts, current) ==
    IF current = 0 THEN insts ELSE [insts EXCEPT ![current].abandoned = TRUE]

\* the condition cancelTask waits for
waitCondition ==
    IF cline = 0
    THEN TRUE
    ELSE ~instances[cline].isStreaming
         \/ instances[cline].didFinishAbortingStream
         \/ instances[cline].isWaitingForFirstChunk

Ops ==
    {"initClineWithTask", "initClineWithHistoryItem", "clearTask", "cancelTask",
     "showTaskWithId", "exportTaskWithId", "deleteTaskWithId", "resetState"}

\* the methods that call getTaskWithId
Lookups == {"cancelTask", "showTaskWithId", "exportTaskWithId", "deleteTaskWithId"}

\* the history items a call may be given: an item other than the running one
HistoryIds == {2}

\* the ids showTaskWithId, exportTaskWithId and deleteTaskWithId may be given
TaskIds == {1, 2}

\* every call started has returned or thrown: none is suspended at an await
AllSettled == \A c \in 1..Len(calls) : calls[c].pc \in {"done", "thrown"}

\* a call as it starts: `item` is its argument, `historyItem` what
\* history.find gave in getTaskWithId (0 for undefined), `history` the array
\* deleteTaskFromState has read and not yet written, `error` what it threw
NewCall(op, item) ==
    [op |-> op, pc |-> "start", item |-> item, historyItem |-> 0,
     history |-> <<>>, error |-> "none"]

\* a method of the provider is called
Begin(op, item) ==
    /\ Len(calls) < MaxCalls
    /\ calls' = Append(calls, NewCall(op, item))
    /\ UNCHANGED <<cline, instances, taskHistory>>
    /\ UNCHANGED <<parserVars, providerVars, soundVars>>

\* a method of the provider is called while no other call is in flight
BeginAlone(op, item) == AllSettled /\ Begin(op, item)

\* the call once it has called getTaskWithId(id), lines 1876-1877: the
\* history h is read in the call and searched for the id
getTaskWithId(call, id, h) ==
    [call EXCEPT !.pc = "lookup",
                 !.item = id,
                 !.historyItem = IF id \in Ids(h) THEN id ELSE 0]

\* the call once it has called deleteTaskFromState, line 1975: the history
\* h is read in the call; `at` is where the call is suspended
deleteTaskFromState(call, h, at) == [call EXCEPT !.pc = at, !.history = h]

\* the call once it has thrown
thrown(call, error) == [call EXCEPT !.pc = "thrown", !.error = error]

\* the id of the current task, 0 when there is none: this.cline?.taskId
currentTaskId == IF cline = 0 THEN 0 ELSE instances[cline].taskId

\* clearTask, lines 2081-2084
ClearTask(c) ==
    /\ calls[c].op = "clearTask"
    /\ calls[c].pc = "start"
    /\ instances' = abortCurrent(instances, cline)
    /\ cline' = 0
    /\ calls' = [calls EXCEPT ![c].pc = "done"]
    /\ UNCHANGED taskHistory
    /\ UNCHANGED <<parserVars, providerVars, soundVars>>

\* initClineWithTask / initClineWithHistoryItem up to the await of getState:
\* clearTask has run. showTaskWithId runs the same code once getTaskWithId
\* has returned the item (line 1904)
InitClears(c) ==
    /\ \/ /\ calls[c].op \in {"initClineWithTask", "initClineWithHistoryItem"}
          /\ calls[c].pc = "start"
       \/ /\ calls[c].op = "showTaskWithId"
          /\ calls[c].pc = "readFile"
    /\ instances' = abortCurrent(instances, cline)
    /\ cline' = 0
    /\ calls' = [calls EXCEPT ![c].pc = "state"]
    /\ UNCHANGED taskHistory
    /\ UNCHANGED <<parserVars, providerVars, soundVars>>

\* getState has resolved: this.cline = new Cline({ ... }), the last
\* statement of initClineWithTask and initClineWithHistoryItem. cancelTask
\* ends in the same code, called with its historyItem, and returns with it;
\* showTaskWithId goes on to tell the webview and waits for it (line 1906)
InitCreates(c) ==
    /\ calls[c].pc = "state"
    /\ instances' =
          Append(instances,
                 NewInstance(IF calls[c].item = 0
                             THEN NewTaskId(Len(instances) + 1)
                             ELSE calls[c].item))
    /\ cline' = Len(instances) + 1
    /\ calls' = [calls EXCEPT
                   ![c].pc = IF calls[c].op = "showTaskWithId"
                             THEN "posting"
                             ELSE "done"]
    /\ UNCHANGED taskHistory
    /\ UNCHANGED <<parserVars, providerVars, soundVars>>

\* cancelTask up to the await of getTaskWithId, or to its end when there is
\* no current task
CancelStarts(c) ==
    /\ calls[c].op = "cancelTask"
    /\ calls[c].pc = "start"
    /\ calls' = [calls EXCEPT
                   ![c] = IF cline = 0
                          THEN [@ EXCEPT !.pc = "done"]
                          ELSE getTaskWithId(@, currentTaskId, taskHistory)]
    /\ UNCHANGED <<cline, instances, taskHistory>>
    /\ UNCHANGED <<parserVars, providerVars, soundVars>>

\* showTaskWithId, lines 1900-1906: getTaskWithId is called for a task other
\* than the current one; for the current one only the webview is told, which
\* the call waits for
ShowStarts(c) ==
    /\ calls[c].op = "showTaskWithId"
    /\ calls[c].pc = "start"
    /\ calls' = [calls EXCEPT
                   ![c] = IF calls[c].item # currentTaskId
                          THEN getTaskWithId(@, calls[c].item, taskHistory)
                          ELSE [@ EXCEPT !.pc = "posting"]]
    /\ UNCHANGED <<cline, instances, taskHistory>>
    /\ UNCHANGED <<parserVars, providerVars, soundVars>>

\* exportTaskWithId, line 1910: getTaskWithId is called
ExportStarts(c) ==
    /\ calls[c].op = "exportTaskWithId"
    /\ calls[c].pc = "start"
    /\ calls' = [calls EXCEPT ![c] = getTaskWithId(@, calls[c].item, taskHistory)]
    /\ UNCHANGED <<cline, instances, taskHistory>>
    /\ UNCHANGED <<parserVars, providerVars, soundVars>>

\* deleteTaskWithId, lines 1915-1919: for the current task clearTask runs and
\* is awaited; for another one getTaskWithId is called at once
DeleteStarts(c) ==
    /\ calls[c].op = "deleteTaskWithId"
    /\ calls[c].pc = "start"
    /\ IF calls[c].item = currentTaskId
       THEN /\ instances' = abortCurrent(instances, cline)
            /\ cline' = 0
            /\ calls' = [calls EXCEPT ![c].pc = "cleared"]
       ELSE /\ calls' = [calls EXCEPT
                           ![c] = getTaskWithId(@, calls[c].item, taskHistory)]
            /\ UNCHANGED <<cline, instances>>
    /\ UNCHANGED taskHistory
    /\ UNCHANGED <<parserVars, providerVars, soundVars>>

\* deleteTaskWithId after the await of clearTask, line 1919
DeleteLooksUp(c) ==
    /\ calls[c].op = "deleteTaskWithId"
    /\ calls[c].pc = "cleared"
    /\ calls' = [calls EXCEPT ![c] = getTaskWithId(@, calls[c].item, taskHistory)]
    /\ UNCHANGED <<cline, instances, taskHistory>>
    /\ UNCHANGED <<parserVars, providerVars, soundVars>>

\* getTaskWithId after the await of line 1876: the item was in the history
\* read, and the test of its file starts (line 1882)
GetTaskFinds(c) ==
    /\ calls[c].op \in Lookups
    /\ calls[c].pc = "lookup"
    /\ calls[c].historyItem # 0
    /\ calls' = [calls EXCEPT ![c].pc = "fileCheck"]
    /\ UNCHANGED <<cline, instances, taskHistory>>
    /\ UNCHANGED <<parserVars, providerVars, soundVars>>

\* getTaskWithId after the await of line 1876: the item was not in the
\* history read, and deleteTaskFromState is called (line 1896)
GetTaskMisses(c) ==
    /\ calls[c].op \in Lookups
    /\ calls[c].pc = "lookup"
    /\ calls[c].historyItem = 0
    /\ calls' = [calls EXCEPT ![c] = deleteTaskFromState(@, taskHistory, "forget")]
    /\ UNCHANGED <<cline, instances, taskHistory>>
    /\ UNCHANGED <<parserVars, providerVars, soundVars>>

\* fileExistsAtPath has resolved true: the file is read (line 1883)
FileExists(c) ==
    /\ calls[c].op \in Lookups
    /\ calls[c].pc = "fileCheck"
    /\ calls' = [calls EXCEPT ![c].pc = "readFile"]
    /\ UNCHANGED <<cline, instances, taskHistory>>
    /\ UNCHANGED <<parserVars, providerVars, soundVars>>

\* fileExistsAtPath has resolved false: deleteTaskFromState is called
FileMissing(c) ==
    /\ calls[c].op \in Lookups
    /\ calls[c].pc = "fileCheck"
    /\ calls' = [calls EXCEPT ![c] = deleteTaskFromState(@, taskHistory, "forget")]
    /\ UNCHANGED <<cline, instances, taskHistory>>
    /\ UNCHANGED <<parserVars, providerVars, soundVars>>

\* fs.readFile rejects (the file is gone since the test) or JSON.parse
\* throws (the file is not JSON): getTaskWithId and its caller reject
ReadFileRejects(c) ==
    /\ calls[c].op \in Lookups
    /\ calls[c].pc = "readFile"
    /\ calls' = [calls EXCEPT ![c] = thrown(@, "readFile")]
    /\ UNCHANGED <<cline, instances, taskHistory>>
    /\ UNCHANGED <<parserVars, providerVars, soundVars>>

\* getTaskWithId has returned the item to cancelTask: this.cline.abortTask(),
\* which throws a TypeError when this.cline is undefined by now, then the
\* wait starts
CancelAborts(c) ==
    /\ calls[c].op = "cancelTask"
    /\ calls[c].pc = "readFile"
    /\ instances' = abortCurrent(instances, cline)
    /\ calls' = [calls EXCEPT
                   ![c] = IF cline = 0
                          THEN thrown(@, "TypeError")
                          ELSE [@ EXCEPT !.pc = "wait"]]
    /\ UNCHANGED <<cline, taskHistory>>
    /\ UNCHANGED <<parserVars, providerVars, soundVars>>

\* getTaskWithId has returned to exportTaskWithId: downloadTask is called
\* and awaited, line 1911
ExportDownloads(c) ==
    /\ calls[c].op = "exportTaskWithId"
    /\ calls[c].pc = "readFile"
    /\ calls' = [calls EXCEPT ![c].pc = "download"]
    /\ UNCHANGED <<cline, instances, taskHistory>>
    /\ UNCHANGED <<parserVars, providerVars, soundVars>>

\* getTaskWithId has returned to deleteTaskWithId: deleteTaskFromState is
\* called, line 1921
DeleteRemoves(c) ==
    /\ calls[c].op = "deleteTaskWithId"
    /\ calls[c].pc = "readFile"
    /\ calls' = [calls EXCEPT ![c] = deleteTaskFromState(@, taskHistory, "delete")]
    /\ UNCHANGED <<cline, instances, taskHistory>>
    /\ UNCHANGED <<parserVars, providerVars, soundVars>>

\* deleteTaskFromState after its await, lines 1977-1978: the history it read
\* is written without the id, then the webview is told (line 1981)
DeleteFromStateWrites(c) ==
    /\ calls[c].op \in Lookups
    /\ calls[c].pc \in {"forget", "delete"}
    /\ taskHistory' = withoutId(calls[c].history, calls[c].item)
    /\ calls' = [calls EXCEPT
                   ![c].pc = IF calls[c].pc = "forget" THEN "forgotten" ELSE "deleted",
                   ![c].history = <<>>]
    /\ UNCHANGED <<cline, instances>>
    /\ UNCHANGED <<parserVars, providerVars, soundVars>>

\* deleteTaskFromState has returned to getTaskWithId: line 1897 throws
TaskNotFound(c) ==
    /\ calls[c].op \in Lookups
    /\ calls[c].pc = "forgotten"
    /\ calls' = [calls EXCEPT ![c] = thrown(@, "Task not found")]
    /\ UNCHANGED <<cline, instances, taskHistory>>
    /\ UNCHANGED <<parserVars, providerVars, soundVars>>

\* deleteTaskFromState has returned to deleteTaskWithId: the files of the
\* task are deleted, lines 1923-1971; fs.unlink and fs.rmdir may reject
DeleteFiles(c) ==
    /\ calls[c].op = "deleteTaskWithId"
    /\ calls[c].pc = "deleted"
    /\ \E rejects \in BOOLEAN :
          calls' = [calls EXCEPT
                      ![c] = IF rejects THEN thrown(@, "fs") ELSE [@ EXCEPT !.pc = "done"]]
    /\ UNCHANGED <<cline, instances, taskHistory>>
    /\ UNCHANGED <<parserVars, providerVars, soundVars>>

\* resetState asks the user, line 2476
ResetAsks(c) ==
    /\ calls[c].op = "resetState"
    /\ calls[c].pc = "start"
    /\ calls' = [calls EXCEPT ![c].pc = "confirm"]
    /\ UNCHANGED <<cline, instances, taskHistory>>
    /\ UNCHANGED <<parserVars, providerVars, soundVars>>

\* this.context.globalState.keys(), line 2486: the keys stored, in the order
\* the host gives them; taskHistory comes first or after another key
globalStateKeys == {<<"taskHistory", "mode">>, <<"mode", "taskHistory">>}

\* the user answers: anything but Yes ends the call; on Yes the loop of
\* lines 2486-2488 starts in the same turn: update(key, undefined) is called
\* for the first key and the call waits for it.  taskHistory set to
\* undefined is what its readers take for the empty array
ResetAnswered(c) ==
    /\ calls[c].op = "resetState"
    /\ calls[c].pc = "confirm"
    /\ \E answer \in {"Yes", "undefined"} :
          IF answer = "Yes"
          THEN \E keys \in globalStateKeys :
                  IF keys[1] = "taskHistory"
                  THEN /\ taskHistory' = <<>>
                       /\ calls' = [calls EXCEPT ![c].pc = "reset"]
                  ELSE /\ calls' = [calls EXCEPT ![c].pc = "update"]
                       /\ UNCHANGED taskHistory
          ELSE /\ calls' = [calls EXCEPT ![c].pc = "done"]
               /\ UNCHANGED taskHistory
    /\ UNCHANGED <<cline, instances>>
    /\ UNCHANGED <<parserVars, providerVars, soundVars>>

\* the update of a key before taskHistory has resolved: the loop goes on
\* and calls update("taskHistory", undefined), line 2487
ResetUpdates(c) ==
    /\ calls[c].op = "resetState"
    /\ calls[c].pc = "update"
    /\ taskHistory' = <<>>
    /\ calls' = [calls EXCEPT ![c].pc = "reset"]
    /\ UNCHANGED <<cline, instances>>
    /\ UNCHANGED <<parserVars, providerVars, soundVars>>

\* resetState after the secrets and the configurations are reset, lines
\* 2509-2513: the current task is told to abort and cleared, then the
\* webview is told, which the call waits for
ResetClears(c) ==
    /\ calls[c].op = "resetState"
    /\ calls[c].pc = "reset"
    /\ instances' = abortCurrent(instances, cline)
    /\ cline' = 0
    /\ calls' = [calls EXCEPT ![c].pc = "posting"]
    /\ UNCHANGED taskHistory
    /\ UNCHANGED <<parserVars, providerVars, soundVars>>

\* the webview has taken the messages: showTaskWithId returns after line
\* 1906, resetState after lines 2513-2514
WebviewPosted(c) ==
    /\ calls[c].op \in {"showTaskWithId", "resetState"}
    /\ calls[c].pc = "posting"
    /\ calls' = [calls EXCEPT ![c].pc = "done"]
    /\ UNCHANGED <<cline, instances, taskHistory>>
    /\ UNCHANGED <<parserVars, providerVars, soundVars>>

\* downloadTask has resolved, the user having chosen where to save:
\* exportTaskWithId returns after line 1911
ExportReturns(c) ==
    /\ calls[c].op = "exportTaskWithId"
    /\ calls[c].pc = "download"
    /\ calls' = [calls EXCEPT ![c].pc = "done"]
    /\ UNCHANGED <<cline, instances, taskHistory>>
    /\ UNCHANGED <<parserVars, providerVars, soundVars>>

\* the code of cancelTask after the wait, up to the await of getState in
\* initClineWithHistoryItem: the current task is marked abandoned and
\* clearTask runs
afterWait(c) ==
    /\ instances' = abortCurrent(abandonCurrent(instances, cline), cline)
    /\ cline' = 0
    /\ calls' = [calls EXCEPT ![c].pc = "state"]
    /\ UNCHANGED taskHistory
    /\ UNCHANGED <<parserVars, providerVars, soundVars>>

\* the wait of cancelTask ends because its condition holds
CancelWaitEnds(c) ==
    /\ calls[c].op = "cancelTask"
    /\ calls[c].pc = "wait"
    /\ waitCondition
    /\ afterWait(c)

\* the timeout of the wait as a rejection that nothing catches
CancelTimeoutRejects(c) ==
    /\ calls[c].op = "cancelTask"
    /\ calls[c].pc = "wait"
    /\ ~waitCondition
    /\ calls' = [calls EXCEPT ![c] = thrown(@, "timeout")]
    /\ UNCHANGED <<cline, instances, taskHistory>>
    /\ UNCHANGED <<parserVars, providerVars, soundVars>>

\* the wait of cancelTask ends on its timeout, caught by .catch
CancelTimesOut(c) ==
    /\ calls[c].op = "cancelTask"
    /\ calls[c].pc = "wait"
    /\ ~waitCondition
    /\ afterWait(c)

\* the current task starts a request: it streams and waits for the first chunk
TaskStreams ==
    /\ cline # 0
    /\ ~instances[cline].isStreaming
    /\ ~instances[cline].aborted
    /\ instances' = [instances EXCEPT ![cline].isStreaming = TRUE,
                                      ![cline].isWaitingForFirstChunk = TRUE]
    /\ UNCHANGED <<cline, calls, taskHistory>>
    /\ UNCHANGED <<parserVars, providerVars, soundVars>>

\* the current task receives the first chunk of its request
TaskFirstChunk ==
    /\ cline # 0
    /\ instances[cline].isWaitingForFirstChunk
    /\ instances' = [instances EXCEPT ![cline].isWaitingForFirstChunk = FALSE]
    /\ UNCHANGED <<cline, calls, taskHistory>>
    /\ UNCHANGED <<parserVars, providerVars, soundVars>>

\* the current task, told to abort, finishes aborting its stream
TaskFinishesAborting ==
    /\ cline # 0
    /\ instances[cline].isStreaming
    /\ instances[cline].aborted
    /\ ~instances[cline].didFinishAbortingStream
    /\ instances' = [instances EXCEPT ![cline].didFinishAbortingStream = TRUE]
    /\ UNCHANGED <<cline, calls, taskHistory>>
    /\ UNCHANGED <<parserVars, providerVars, soundVars>>

\* call c runs from the await it is suspended at to its next one: the
\* continuations the event loop runs by itself
Continuation(c) ==
    \/ ClearTask(c)
    \/ InitClears(c)
    \/ InitCreates(c)
    \/ CancelStarts(c)
    \/ ShowStarts(c)
    \/ ExportStarts(c)
    \/ DeleteStarts(c)
    \/ DeleteLooksUp(c)
    \/ GetTaskFinds(c)
    \/ GetTaskMisses(c)
    \/ FileExists(c)
    \/ FileMissing(c)
    \/ ReadFileRejects(c)
    \/ CancelAborts(c)
    \/ ExportDownloads(c)
    \/ DeleteRemoves(c)
    \/ DeleteFromStateWrites(c)
    \/ TaskNotFound(c)
    \/ DeleteFiles(c)
    \/ ResetAsks(c)
    \/ ResetUpdates(c)
    \/ ResetClears(c)
    \/ WebviewPosted(c)
    \/ CancelWaitEnds(c)
    \/ CancelTimesOut(c)

\* a step of a call in flight whose await has settled
Continues == \E c \in 1..Len(calls) : Continuation(c)

\* a step of a call in flight: a continuation, or one that waits for the
\* user: the answer to the question of resetState, the save dialog of
\* downloadTask
CallStep ==
    \/ Continues
    \/ \E c \in 1..Len(calls) : ResetAnswered(c)
    \/ \E c \in 1..Len(calls) : ExportReturns(c)

\* a step of a call in flight or of the current task
TaskStep ==
    \/ CallStep
    \/ TaskStreams
    \/ TaskFirstChunk
    \/ TaskFinishesAborting

\* the provider with no task, or with the task of a history item running
TaskInit ==
    /\ NoCore
    /\ NoSound
    /\ taskHistory = << [id |-> 1], [id |-> 2] >>
    /\ calls = <<>>
    /\ \/ cline = 0 /\ instances = <<>>
       \/ cline = 1 /\ instances = << NewInstance(1) >>

Arguments(op) ==
    IF op = "initClineWithHistoryItem"
    THEN HistoryIds
    ELSE IF op \in Lookups \ {"cancelTask"} THEN TaskIds ELSE {0}

\* calls that overlap: one may start while the others are at their awaits
TaskNext ==
    \/ \E op \in Ops : \E item \in Arguments(op) : Begin(op, item)
    \/ TaskStep

TaskSpec == TaskInit /\ [][TaskNext]_vars

\* the event loop runs the continuation of a call whose await has settled,
\* and the timer of a wait fires; the user may never answer
TaskLive == TaskSpec /\ WF_vars(Continues)

\* calls one after the other: a call starts when the others have ended
CancelNext ==
    \/ \E op \in Ops : \E item \in Arguments(op) : BeginAlone(op, item)
    \/ TaskStep

CancelSpec == TaskInit /\ [][CancelNext]_vars

----------------------------------------------------------------------------
(* The task history kept in the global state, ClineProvider.ts 1974-1982   *)
(* and 2436-2447.  updateTaskHistory and deleteTaskFromState read the      *)
(* array, then write it after an await.  globalState.get is the host's: it *)
(* may hand out the stored array itself, which updateTaskHistory then      *)
(* changes in place, or a copy of it; a call notes which one it got.       *)

\* the number of the array now stored: every write stores a new one
Generation == 1 + Cardinality({c \in 1..Len(calls) : calls[c].pc = "done"})

\* history.findIndex((h) => h.id === item.id), 0 for -1
findIndexOfId(h, id) ==
    IF id \in Ids(h)
    THEN CHOOSE k \in 1..Len(h) :
            h[k].id = id /\ \A j \in 1..(k - 1) : h[j].id # id
    ELSE 0

\* lines 2438-2444: the item replaces the one with its id, or is appended
upsert(h, item) ==
    IF findIndexOfId(h, item.id) # 0
    THEN [h EXCEPT ![findIndexOfId(h, item.id)] = item]
    ELSE Append(h, item)

\* the items given to updateTaskHistory and the ids given to
\* deleteTaskFromState
UpdateItems == {[id |-> i, ts |-> t] : i \in {2, 3}, t \in {1, 2}}
DeleteIds == {1, 2}

\* the call runs up to its first await: globalState.get has been evaluated
HistoryBegin(op, item, aliased) ==
    /\ Len(calls) < MaxCalls + 1
    /\ calls' = Append(calls, [op |-> op, pc |-> "read", item |-> item,
                               ref |-> IF aliased THEN Generation ELSE 0,
                               history |-> taskHistory])
    /\ UNCHANGED <<cline, instances, taskHistory>>
    /\ UNCHANGED <<parserVars, providerVars, soundVars>>

\* updateTaskHistory after its await, lines 2437-2445: the array it holds is
\* changed in place, so every call that holds the same array sees the change
UpdateWrites(c) ==
    /\ calls[c].op = "updateTaskHistory"
    /\ calls[c].pc = "read"
    /\ taskHistory' = upsert(calls[c].history, calls[c].item)
    /\ calls' = [k \in 1..Len(calls) |->
                    IF k = c
                    THEN [calls[k] EXCEPT !.pc = "done",
                                          !.history = taskHistory']
                    ELSE IF /\ calls[k].ref # 0
                            /\ calls[k].ref = calls[c].ref
                            /\ calls[k].pc = "read"
                         THEN [calls[k] EXCEPT !.history = taskHistory']
                         ELSE calls[k]]
    /\ UNCHANGED <<cline, instances>>
    /\ UNCHANGED <<parserVars, providerVars, soundVars>>

\* deleteTaskFromState after its await, lines 1976-1978
DeleteWrites(c) ==
    /\ calls[c].op = "deleteTaskFromState"
    /\ calls[c].pc = "read"
    /\ taskHistory' = withoutId(calls[c].history, calls[c].item)
    /\ calls' = [calls EXCEPT ![c].pc = "done"]
    /\ UNCHANGED <<cline, instances>>
    /\ UNCHANGED <<parserVars, providerVars, soundVars>>

HistoryInit ==
    /\ NoCore
    /\ NoSound
    /\ cline = 0
    /\ instances = <<>>
    /\ calls = <<>>
    /\ taskHistory = << [id |-> 1, ts |-> 0], [id |-> 2, ts |-> 0] >>

HistoryNext ==
    \/ \E item \in UpdateItems : \E aliased \in BOOLEAN :
          HistoryBegin("updateTaskHistory", item, aliased)
    \/ \E id \in DeleteIds : \E aliased \in BOOLEAN :
          HistoryBegin("deleteTaskFromState", id, aliased)
    \/ \E c \in 1..Len(calls) : UpdateWrites(c)
    \/ \E c \in 1..Len(calls) : DeleteWrites(c)

HistorySpec == HistoryInit /\ [][HistoryNext]_vars

----------------------------------------------------------------------------
(* utils/sound.ts.  A file path is a sequence of characters; the clock is  *)
(* Date.now() in milliseconds.  played lists the times of the playbacks    *)
(* handed to sound.play, playing counts those whose promise has not yet    *)
(* settled, shown lists the errors and who gets them: showErrorMessage,    *)
(* the caller of playSound, or nobody (a rejected promise that is not      *)
(* handled).                                                               *)

MIN_PLAY_INTERVAL == 500

MaxTime == 2500
MaxShown == 2

\* String.prototype.toLowerCase on the letters of the paths below
lowerCaseOf(ch) ==
    CASE ch = "A" -> "a"
      [] ch = "V" -> "v"
      [] ch = "W" -> "w"
      [] OTHER -> ch

\* path.extname (posix): end is the position after the last character that
\* is not a trailing "/", startPart the first position of the last portion,
\* startDot the last "." of that portion (0 when there is none)
extEnd(fp) ==
    IF \E i \in 1..Len(fp) : fp[i] # "/"
    THEN (CHOOSE i \in 1..Len(fp) :
             fp[i] # "/" /\ \A j \in (i + 1)..Len(fp) : fp[j] = "/") + 1
    ELSE 0

extStartPart(fp) ==
    LET end == extEnd(fp)
    IN  IF \E i \in 1..(end - 1) : fp[i] = "/"
        THEN (CHOOSE i \in 1..(end - 1) :
                 fp[i] = "/" /\ \A j \in (i + 1)..(end - 1) : fp[j] # "/")
             + 1
        ELSE 1

extStartDot(fp) ==
    LET end == extEnd(fp)
        startPart == extStartPart(fp)
    IN  IF \E i \in startPart..(end - 1) : fp[i] = "."
        THEN CHOOSE i \in startPart..(end - 1) :
                fp[i] = "." /\ \A j \in (i + 1)..(end - 1) : fp[j] # "."
        ELSE 0

\* the portion ".." and a portion whose only "." is its first character have
\* no extension
extname(fp) ==
    LET end == extEnd(fp)
        startPart == extStartPart(fp)
        startDot == extStartDot(fp)
    IN  IF \/ end = 0
           \/ startDot = 0
           \/ startDot = startPart
           \/ /\ fp[startPart] = "."
              /\ startDot = end - 1
              /\ startDot = startPart + 1
        THEN <<>>
        ELSE SubSeq(fp, startDot, end - 1)

\* isWAV, lines 19-21
isWAV(fp) ==
    LET ext == extname(fp)
    IN  [i \in 1..Len(ext) |-> lowerCaseOf(ext[i])] = <<".", "w", "a", "v">>

\* playSound without the test of line 62
tooSoonNever(currentTime, last) == FALSE

\* line 62: currentTime - lastPlayedTime < MIN_PLAY_INTERVAL
tooSoon(currentTime, last) == currentTime - last < MIN_PLAY_INTERVAL

\* the file paths given to playSound
Paths ==
    { <<>>,
      <<"a", ".", "w", "a", "v">>,
      <<"A", ".", "W", "A", "V">>,
      <<"d", "/", "a", ".", "w", "a", "v", "/">>,
      <<".", ".", "w", "a", "v">>,
      <<".", "w", "a", "v">>,
      <<"w", "a", "v">>,
      <<"a", ".", "m", "p", "3">>,
      <<"a", ".", "w", "a", "v", "/", "b">>,
      <<"a", ".", "w", "a", "v", ".", "m", "p", "3">> }

\* the time steps of the clock between two calls
Ticks == {250, 499, 500}

\* setSoundEnabled, lines 30-32
SetSoundEnabled(enabled) ==
    /\ isSoundEnabled # enabled
    /\ isSoundEnabled' = enabled
    /\ UNCHANGED <<lastPlayedTime, clock, played, playing, shown>>
    /\ UNCHANGED <<parserVars, providerVars, taskVars>>

\* time passes
Tick(d) ==
    /\ clock + d <= MaxTime
    /\ clock' = clock + d
    /\ UNCHANGED <<isSoundEnabled, lastPlayedTime, played, playing, shown>>
    /\ UNCHANGED <<parserVars, providerVars, taskVars>>

\* what lines 65-66 meet: require("sound-play") and sound.play(...) give the
\* promise of the playback, or one of them throws
SoundPlay == {"promise", "throws"}

\* the error of a require or of a sound.play that throws
soundPlayError == [message |-> "Cannot find module 'sound-play'"]

\* the body of the try block of playSound, lines 49-71: how it ends
playSoundTry(fp, soundPlay) ==
    IF ~isSoundEnabled THEN [kind |-> "return"]
    ELSE IF fp = <<>> THEN [kind |-> "return"]
    ELSE IF ~isWAV(fp)
    THEN [kind |-> "throw",
          error |-> [message |-> "Only wav files are supported."]]
    ELSE IF tooSoon(clock, lastPlayedTime) THEN [kind |-> "return"]
    ELSE IF soundPlay = "throws"
    THEN [kind |-> "throw", error |-> soundPlayError]
    ELSE [kind |-> "play"]

\* the catch of lines 72-74: vscode.window.showErrorMessage(error.message)
playSoundCatch(error) == [by |-> "showErrorMessage", message |-> error.message]

\* the handler of lines 66-68 throws in the promise chain, which nothing
\* awaits: the error is an unhandled rejection
playRejected == [by |-> "unhandledRejection", message |-> "Failed to play sound effect"]

\* playSound, lines 47-75: one synchronous call. A playback handed to
\* sound.play leaves a promise that settles in a later turn.
PlaySound(fp) ==
    /\ Len(shown) < MaxShown
    /\ \E soundPlay \in SoundPlay :
          LET try == playSoundTry(fp, soundPlay)
          IN  IF try.kind = "play"
              THEN /\ played' = Append(played, clock)
                   /\ playing' = playing + 1
                   /\ lastPlayedTime' = clock
                   /\ UNCHANGED shown
              ELSE IF try.kind = "throw"
              THEN /\ shown' = Append(shown, playSoundCatch(try.error))
                   /\ UNCHANGED <<played, playing, lastPlayedTime>>
              ELSE UNCHANGED <<played, playing, lastPlayedTime, shown>>
    /\ UNCHANGED <<isSoundEnabled, clock>>
    /\ UNCHANGED <<parserVars, providerVars, taskVars>>

\* the promise of a playback resolves: the handler of line 66 does not run
PlaybackEnds ==
    /\ playing > 0
    /\ playing' = playing - 1
    /\ UNCHANGED <<isSoundEnabled, lastPlayedTime, clock, played, shown>>
    /\ UNCHANGED <<parserVars, providerVars, taskVars>>

\* the promise of a playback rejects, in a turn after the call of playSound
\* that started it: the handler of lines 66-68 throws
PlaybackFails ==
    /\ playing > 0
    /\ Len(shown) < MaxShown
    /\ playing' = playing - 1
    /\ shown' = Append(shown, playRejected)
    /\ UNCHANGED <<isSoundEnabled, lastPlayedTime, clock, played>>
    /\ UNCHANGED <<parserVars, providerVars, taskVars>>

\* the module as loaded, at some time of the clock
SoundInit ==
    /\ NoCore
    /\ NoTasks
    /\ isSoundEnabled = FALSE
    /\ lastPlayedTime = 0
    /\ clock = 2 * MIN_PLAY_INTERVAL
    /\ played = <<>>
    /\ playing = 0
    /\ shown = <<>>

SoundNext ==
    \/ \E enabled \in BOOLEAN : SetSoundEnabled(enabled)
    \/ \E d \in Ticks : Tick(d)
    \/ \E fp \in Paths : PlaySound(fp)
    \/ PlaybackEnds
    \/ PlaybackFails

SoundSpec == SoundInit /\ [][SoundNext]_vars

----------------------------------------------------------------------------
(* Properties of parseAssistantMessage.                                    *)

Contains(s, t) == \E k \in 0..Len(s) : occursAt(s, t, k)

IsToolUse(b) == b.type = "tool_use"

\* the sequence ps of <<p, v>> as the params of a tool: one value per name,
\* trimmed, the later value replacing the earlier one
RECURSIVE TrimmedParams(_)
TrimmedParams(ps) ==
    IF ps = <<>> THEN <<>>
    ELSE SetParam(TrimmedParams(SubSeq(ps, 1, Len(ps) - 1)),
                  ps[Len(ps)][1], trim(ps[Len(ps)][2]))

\* every complete block of `old` is at the same place, unchanged, in `new`
Preserved(old, new) ==
    \A k \in 1..Len(old) :
        old[k].partial = FALSE => (k <= Len(new) /\ new[k] = old[k])

\* C1: monotonic convergence. Whenever the block list of the turn is replaced
\* by the parse of a longer buffer, every block that was reported with
\* partial = FALSE is still there, unchanged and at the same place; so no
\* sequence of appends alters, drops or reorders a complete block.
C1_MonotonicConvergence ==
    [][Preserved(assistantMessageContent, assistantMessageContent')]_vars

\* a complete tool block has survived the append of a later text event
C1_Witness ==
    /\ pc = "idle"
    /\ nChunks = 3
    /\ Len(assistantMessageContent) = 3
    /\ IsToolUse(assistantMessageContent[2])
    /\ assistantMessageContent[2].partial = FALSE
    /\ assistantMessageContent[3].content = <<"a">>

\* C2 as stated: the buffer <T><p>v</p>... without </T> parses to a single
\* block, the partial ToolUse.
C2_SingleBlock ==
    \A T \in Range(toolUseNames), ps \in ParamLists :
        (pc = "idle" /\ assistantMessage = PartialTail(T, ps))
            => assistantMessageContent = <<ToolUse(T, TrimmedParams(ps), TRUE)>>

\* C2 amended: the buffer <T><p>v</p>... without </T> parses to exactly two
\* blocks: the empty complete TextContent left by the opening delimiter, then
\* the ToolUse named T with the trimmed parameter values and partial = TRUE.
C2_PartialTail ==
    \A T \in Range(toolUseNames), ps \in ParamLists :
        (pc = "idle" /\ assistantMessage = PartialTail(T, ps))
            => assistantMessageContent =
                   <<TextContent(<<>>, FALSE), ToolUse(T, TrimmedParams(ps), TRUE)>>

\* the parse of <write_to_file><path> v </path><content>v</content> has returned
C2_Witness ==
    /\ pc = "idle"
    /\ assistantMessage =
           PartialTail(write_to_file, << <<path, <<" ", "v", " ">> >>, <<content, <<"v">> >> >>)
    /\ Len(assistantMessageContent) = 2
    /\ assistantMessageContent[2].partial = TRUE
    /\ Len(assistantMessageContent[2].params) = 2

\* C3: round trip. The buffer "a <T><p>v</p></T> b" parses to exactly three
\* blocks: the complete text trim(a), the complete ToolUse T with the one
\* parameter p = trim(v), and the text trim(b), still open at the end.
C3_RoundTrip ==
    \A T \in Range(toolUseNames), p \in Range(toolParamNames),
       a \in Texts, v \in Texts, b \in Texts :
        (pc = "idle" /\ assistantMessage = RoundTrip(T, p, a, v, b))
            => assistantMessageContent =
                   << TextContent(trim(a), FALSE),
                      ToolUse(T, <<[name |-> p, value |-> trim(v)]>>, FALSE),
                      TextContent(trim(b), TRUE) >>

\* the parse of "a b <search_files><regex> a\n</regex></search_files>  a\n"
C3_Witness ==
    /\ pc = "idle"
    /\ assistantMessage =
           RoundTrip(search_files, regex, <<"a", " ", "b">>, <<" ", "a", "\n">>,
                     <<" ", "a", "\n">>)
    /\ Len(assistantMessageContent) = 3
    /\ assistantMessageContent[2].params = <<[name |-> regex, value |-> <<"a">>]>>

\* C4: embedded closing delimiter. For a write_to_file span whose <content>
\* payload contains the text </content>, the content parameter of the
\* completed ToolUse is the whole trimmed payload, the text between the first
\* <content> and the last </content> of the span.
C4_EmbeddedClosingDelimiter ==
    \A payload \in Payloads :
        (/\ pc = "idle"
         /\ assistantMessage = WriteSpan(payload)
         /\ Contains(payload, ClosingTag(content)))
            => \A k \in 1..Len(assistantMessageContent) :
                   (IsToolUse(assistantMessageContent[k])
                    /\ assistantMessageContent[k].partial = FALSE)
                       => /\ HasParam(assistantMessageContent[k].params, content)
                          /\ ParamValue(assistantMessageContent[k].params, content)
                                 = trim(payload)

\* C5: unknown tag is text. The buffer <X>t</X>, X not a tool name, parses to
\* one TextContent holding the buffer as it is; there is no ToolUse.
C5_UnknownTagIsText ==
    \A X \in UnknownNames, t \in Texts :
        (pc = "idle" /\ assistantMessage = Tagged(X, t))
            => assistantMessageContent = <<TextContent(assistantMessage, TRUE)>>

\* the parse of <path> a\n</path>, a parameter name used as a tag, has returned
C5_Witness ==
    /\ pc = "idle"
    /\ assistantMessage = Tagged(path, <<" ", "a", "\n">>)
    /\ Len(assistantMessageContent) = 1

\* C6: idempotence and statelessness. Whatever was parsed before, and however
\* often the same buffer is parsed, the list a call returns is the one a
\* call with fresh locals computes from the buffer alone.
C6_Stateless ==
    pc = "idle" => assistantMessageContent = parseAssistantMessage(assistantMessage)

\* a second call on <read_file><path>a has reached the end of the buffer: the
\* list held is already the parse of that buffer, not of the shorter one
C6_Witness ==
    /\ pc = "parse"
    /\ scan.i = Len(assistantMessage)
    /\ assistantMessage = OpeningTag(read_file) \o OpeningTag(path) \o <<"a">>
    /\ assistantMessageContent = parseAssistantMessage(assistantMessage)
    /\ assistantMessageContent[2].params = <<[name |-> path, value |-> <<"a">>]>>

IsBlock(b) ==
    \/ /\ b.type = "text"
       /\ DOMAIN b = {"type", "content", "partial"}
       /\ b.partial \in BOOLEAN
    \/ /\ b.type = "tool_use"
       /\ DOMAIN b = {"type", "name", "params", "partial"}
       /\ b.partial \in BOOLEAN
       /\ b.name \in Range(toolUseNames)
       /\ \A k \in 1..Len(b.params) : b.params[k].name \in Range(toolParamNames)

\* C7: no failure mode. Every call, on whatever buffer (stray closing tags,
\* truncated tags, tools opened inside tools), returns a list of well-formed
\* blocks after exactly one loop iteration per character: each iteration
\* consumes one character, the index never passes the end of the buffer and
\* the call returns when the index reaches it.
C7_NoFailureMode ==
    /\ [](pc = "idle" =>
            \A k \in 1..Len(assistantMessageContent) : IsBlock(assistantMessageContent[k]))
    /\ [](pc = "parse" =>
            /\ scan.i <= Len(assistantMessage)
            /\ scan.accumulator = SubSeq(assistantMessage, 1, scan.i))
    /\ [][(pc = "parse" /\ pc' = "parse") => scan'.i = scan.i + 1]_vars
    /\ [][(pc = "parse" /\ pc' = "idle") => scan.i = Len(assistantMessage)]_vars

\* the call on "</path><read_file></pa" (a stray closing tag, an unclosed tool
\* and a truncated tag) has returned
C7_Witness ==
    /\ pc = "idle"
    /\ assistantMessage =
           ClosingTag(path) \o OpeningTag(read_file) \o <<lt, "/", "p", "a">>
    /\ Len(assistantMessageContent) = 2

\* C8: at every scan position an open tool and an open text span never exist
\* together, and a returned list has at most one partial block, its last.
C8_OneOpenBlock ==
    /\ ~(scan.currentToolUse # undefined /\ scan.currentTextContent # undefined)
    /\ pc = "idle" =>
          \A k \in 1..Len(assistantMessageContent) :
              assistantMessageContent[k].partial => k = Len(assistantMessageContent)

\* a call has returned text, a complete tool, and an open tool as last block
C8_Witness ==
    /\ pc = "idle"
    /\ Len(assistantMessageContent) = 4
    /\ assistantMessageContent[2].partial = FALSE
    /\ IsToolUse(assistantMessageContent[4])
    /\ assistantMessageContent[4].partial = TRUE
    /\ scan.currentToolUse # undefined

\* t occurs in s after an occurrence of o
OccursAfter(s, o, t) ==
    \E a \in 0..Len(s), b \in 0..Len(s) :
        occursAt(s, o, a) /\ occursAt(s, t, b) /\ b >= a + Len(o)

\* C9 as stated: a ToolUse is partial if and only if its closing delimiter has
\* not appeared in the buffer after its opening delimiter.
C9_PartialIffNotClosed ==
    pc = "idle" =>
        \A k \in 1..Len(assistantMessageContent) :
            LET b == assistantMessageContent[k]
            IN  IsToolUse(b) =>
                    IF b.partial
                    THEN ~Contains(sliceFrom(assistantMessage, scan.currentToolUseStartIndex),
                                   ClosingTag(b.name))
                    ELSE OccursAfter(assistantMessage, OpeningTag(b.name), ClosingTag(b.name))

\* a loop iteration with a tool open completes the tool exactly when no
\* parameter is open and the tool's span now ends with its closing delimiter
C9_Step ==
    (pc = "parse" /\ scan.currentToolUse # undefined /\ scan'.i = scan.i + 1)
        => ((scan'.currentToolUse = undefined)
              <=> /\ scan.currentParamName = <<>>
                  /\ endsWith(sliceFrom(scan'.accumulator, scan.currentToolUseStartIndex),
                              ClosingTag(scan.currentToolUse.name)))

\* in a returned list the partial ToolUse is the tool still open at the end
C9_Flag ==
    pc = "idle" =>
        \A k \in 1..Len(assistantMessageContent) :
            IsToolUse(assistantMessageContent[k]) =>
                (assistantMessageContent[k].partial
                    <=> (scan.currentToolUse # undefined
                         /\ k = Len(scan.contentBlocks) + 1))

\* C9 amended: a ToolUse is partial if and only if its closing delimiter has
\* not been scanned, after its opening delimiter, at a position where no
\* parameter was open; a closing delimiter inside an open parameter's value
\* leaves the tool partial.
C9_PartialFlag == [][C9_Step]_vars /\ []C9_Flag

\* <read_file><path></read_file>: the closing delimiter has appeared inside
\* the open parameter and the tool is reported partial
C9_Witness ==
    /\ pc = "idle"
    /\ assistantMessage =
           OpeningTag(read_file) \o OpeningTag(path) \o ClosingTag(read_file)
    /\ assistantMessageContent[2].partial = TRUE
    /\ assistantMessageContent[2].params =
           <<[name |-> path, value |-> ClosingTag(read_file)]>>

\* C10: scope of the last-closing-delimiter rule. For every tool and parameter
\* other than write_to_file's content, in <T><p>v1</p>v2</p> the value of p
\* is trim(v1): it ends at the first </p> and the later </p> changes nothing.
C10_FirstClosingDelimiter ==
    \A T \in Range(toolUseNames), p \in Range(toolParamNames),
       v1 \in Texts, v2 \in Texts, closed \in BOOLEAN :
        (/\ pc = "idle"
         /\ assistantMessage = SecondClose(T, p, v1, v2, closed)
         /\ ~(T = write_to_file /\ p = content))
            => /\ Len(assistantMessageContent) = 2
               /\ assistantMessageContent[2] =
                      ToolUse(T, <<[name |-> p, value |-> trim(v1)]>>, ~closed)

\* <read_file><content>a</content>a b</content></read_file> has been parsed:
\* the content parameter of another tool than write_to_file
C10_Witness ==
    /\ pc = "idle"
    /\ assistantMessage =
           SecondClose(read_file, content, <<"a">>, <<"a", " ", "b">>, TRUE)
    /\ assistantMessageContent[2].params = <<[name |-> content, value |-> <<"a">>]>>

----------------------------------------------------------------------------
(* Properties of the provider adapters.                                    *)

\* the positions of the last two messages of the user
LastTwoUsers(msgs) ==
    { k \in 1..Len(msgs) :
        /\ msgs[k].role = "user"
        /\ Cardinality({j \in (k + 1)..Len(msgs) : msgs[j].role = "user"}) < 2 }

\* the positions of the parts of a message that carry a cache breakpoint
MarkedParts(m) ==
    IF IsString(m.content)
    THEN {}
    ELSE {j \in 1..Len(m.content.parts) : Has(m.content.parts[j], "cache_control")}

\* createMessage of the Anthropic adapter has sent its request
AnthropicSent == handler = "anthropic" /\ outcome # "idle"

\* C11 as stated: in the request of a model with prompt caching, the
\* messages with a cache breakpoint are exactly the last and the
\* second-to-last message of the user (one when there is one, none when
\* there is none), whatever the history; every other message is sent as it
\* is, and in a message with a breakpoint only the last part of the content
\* carries it.
C11_CacheMarking ==
    (AnthropicSent /\ requests[1].model \in cachingModelIds) =>
        LET sent == requests[1].messages
        IN  /\ Len(sent) = Len(messages)
            /\ \A k \in 1..Len(messages) :
                 /\ sent[k].role = messages[k].role
                 /\ IF k \in LastTwoUsers(messages)
                    THEN /\ ~IsString(sent[k].content)
                         /\ MarkedParts(sent[k]) = {Len(sent[k].content.parts)}
                         /\ Len(sent[k].content.parts) =
                                IF IsString(messages[k].content)
                                THEN 1
                                ELSE Len(messages[k].content.parts)
                    ELSE /\ MarkedParts(sent[k]) = {}
                         /\ sent[k] = messages[k]

\* the content is an array with no part
EmptyParts(body) == ~IsString(body) /\ Len(body.parts) = 0

\* C11 amended: in the request of a model with prompt caching, the messages
\* with a cache breakpoint are exactly those of the last and the
\* second-to-last message of the user whose content is a string or an array
\* with at least one part; a message of the user whose content is the empty
\* array has no part to mark and is sent without a breakpoint. Every other
\* message is sent as it is, and in a message with a breakpoint only the
\* last part of the content carries it, the parts before it being unchanged.
C11_MarkedUnlessEmpty ==
    (AnthropicSent /\ requests[1].model \in cachingModelIds) =>
        LET sent == requests[1].messages
        IN  /\ Len(sent) = Len(messages)
            /\ \A k \in 1..Len(messages) :
                 /\ sent[k].role = messages[k].role
                 /\ IF k \in LastTwoUsers(messages)
                    THEN /\ ~IsString(sent[k].content)
                         /\ Len(sent[k].content.parts) =
                                IF IsString(messages[k].content)
                                THEN 1
                                ELSE Len(messages[k].content.parts)
                         /\ MarkedParts(sent[k]) =
                                IF EmptyParts(messages[k].content)
                                THEN {}
                                ELSE {Len(sent[k].content.parts)}
                         /\ ~IsString(messages[k].content) =>
                                \A j \in 1..(Len(sent[k].content.parts) - 1) :
                                    sent[k].content.parts[j] =
                                        messages[k].content.parts[j]
                    ELSE /\ MarkedParts(sent[k]) = {}
                         /\ sent[k] = messages[k]

\* three messages of the user: the first is sent unmarked, the second, of
\* two parts, is marked on its second part, the third, whose content is the
\* empty array, is sent without a breakpoint
C11_Witness ==
    /\ AnthropicSent
    /\ requests[1].model \in cachingModelIds
    /\ Len(messages) = 3
    /\ \A k \in 1..3 : messages[k].role = "user"
    /\ ~IsString(messages[2].content)
    /\ Len(messages[2].content.parts) = 2
    /\ EmptyParts(messages[3].content)
    /\ requests[1].messages[1] = messages[1]
    /\ MarkedParts(requests[1].messages[2]) = {2}
    /\ MarkedParts(requests[1].messages[3]) = {}

\* the model getModel selects has the thinking capability
SelectedThinking ==
    /\ Has(options, "apiModelId")
    /\ options.apiModelId \in DOMAIN anthropicModels
    /\ Has(anthropicModels[options.apiModelId], "thinking")
    /\ anthropicModels[options.apiModelId].thinking

\* C12: for a model with the thinking capability, budget_tokens is at least
\* 1024 and at most floor(0.8 * maxTokens), maxTokens being the effective
\* max-output-token value.
C12_BudgetBounds ==
    (AnthropicSent /\ SelectedThinking) =>
        /\ Has(requests[1], "thinking")
        /\ requests[1].thinking = getModel(options).thinking
        /\ requests[1].max_tokens = getModel(options).maxTokens
        /\ 1024 <= requests[1].thinking.budget_tokens
        /\ 5 * requests[1].thinking.budget_tokens <= 4 * requests[1].max_tokens

\* C13: with the thinking capability getModel returns temperature 1 whatever
\* modelTemperature is configured, and a thinking configuration of type
\* enabled; without it getModel returns the configured modelTemperature
\* (0 when none is configured) and no thinking configuration.
C13_Temperature ==
    AnthropicSent =>
        LET model == getModel(options)
        IN  /\ requests[1].temperature = model.temperature
            /\ Has(requests[1], "thinking") = Has(model, "thinking")
            /\ IF SelectedThinking
               THEN /\ model.temperature = 1
                    /\ Has(model, "thinking")
                    /\ model.thinking.type = "enabled"
               ELSE /\ model.temperature =
                           IF Has(options, "modelTemperature")
                           THEN options.modelTemperature
                           ELSE 0
                    /\ ~Has(model, "thinking")

\* a thinking model configured with temperature 2 is requested with 1
C13_Witness ==
    /\ AnthropicSent
    /\ SelectedThinking
    /\ Has(options, "modelTemperature")
    /\ options.modelTemperature = 2
    /\ requests[1].temperature = 1
    /\ requests[1].thinking.type = "enabled"

\* a is an initial part of b
IsPrefix(a, b) == Len(a) <= Len(b) /\ SubSeq(b, 1, Len(a)) = a

\* the content of the response delivered, the empty string when absent
ContentDelivered ==
    IF /\ delivered[1].choices # <<>>
       /\ Has(delivered[1].choices[1].message, "content")
    THEN delivered[1].choices[1].message.content
    ELSE ""

\* C14: without streaming the OpenAI adapter sends one request and, when it
\* succeeds, yields exactly a Text event (the content of the response, the
\* empty string when there is none) and then a Usage event, and ends; it
\* yields no Reasoning event and nothing before the response.
C14_NonStreamingFallback ==
    NonStreaming =>
        /\ Len(requests) <= 1
        /\ stream # "open"
        /\ Len(delivered) <= 1
        /\ delivered = <<>> => events = <<>>
        /\ Len(events) <= 2
        /\ Len(events) >= 1 =>
             events[1] = [type |-> "text", text |-> ContentDelivered]
        /\ Len(events) = 2 => events[2].type = "usage"
        /\ outcome = "ended" =>
             /\ Len(requests) = 1
             /\ ~Has(requests[1], "stream")
             /\ Len(delivered) = 1
             /\ Len(events) = 2

\* a response whose message has no content gave Text "" and then Usage
C14_Witness ==
    /\ NonStreaming
    /\ outcome = "ended"
    /\ delivered[1].choices # <<>>
    /\ ~Has(delivered[1].choices[1].message, "content")
    /\ events[1] = [type |-> "text", text |-> ""]
    /\ events[2] = [type |-> "usage", inputTokens |-> 10, outputTokens |-> 5]

\* C15: when the provider stream throws after k chunks, createMessage has
\* yielded exactly the events of those k chunks, in order, and throws: one
\* request was sent, the call has not ended normally, and afterwards nothing
\* is yielded, sent or changed.
C15_FailurePropagation ==
    /\ [](stream = "thrown" =>
            /\ outcome = "error"
            /\ events = EventsOf(delivered)
            /\ Len(requests) = 1)
    /\ [][stream = "thrown" =>
            UNCHANGED <<events, outcome, requests, delivered, stream>>]_vars

\* the stream threw after two chunks whose events were yielded
C15_Witness ==
    /\ stream = "thrown"
    /\ outcome = "error"
    /\ Len(delivered) = 2
    /\ Len(events) >= 2
    /\ events = EventsOf(delivered)

StreamEventTypes == {"text", "reasoning", "usage"}

\* C16: when the provider stream ends, createMessage ends with exactly the
\* events of the chunks delivered; the step that ends it yields nothing, the
\* chunks message_stop and content_block_stop yield nothing, and every event
\* is a Text, a Reasoning or a Usage event (there is no sentinel).
C16_EndOfSequence ==
    /\ [](\A k \in 1..Len(events) : events[k].type \in StreamEventTypes)
    /\ [](stream = "done" => (outcome = "ended" /\ events = EventsOf(delivered)))
    /\ [][(stream = "open" /\ stream' = "done") =>
            (events' = events /\ delivered' = delivered)]_vars
    /\ [][(/\ handler = "anthropic"
           /\ Len(delivered') = Len(delivered) + 1
           /\ delivered'[Len(delivered')].type \in
                  {"message_stop", "content_block_stop"}) =>
            events' = events]_vars

\* an Anthropic stream ended after a usage chunk, a text chunk and
\* message_stop: two events
C16_Witness ==
    /\ handler = "anthropic"
    /\ stream = "done"
    /\ outcome = "ended"
    /\ Len(delivered) = 3
    /\ delivered[1].type = "message_start"
    /\ delivered[2].type = "content_block_delta"
    /\ delivered[3].type = "message_stop"
    /\ Len(events) = 2

CacheFields == {"cacheWriteTokens", "cacheReadTokens"}

\* the usage counts of the provider behind the cache fields of an event
ProviderCount(f) ==
    IF f = "cacheWriteTokens"
    THEN "cache_creation_input_tokens"
    ELSE "cache_read_input_tokens"

\* C17: a Usage event of the Anthropic adapter has each cache field absent
\* or strictly positive: the event of a message_start carries the field
\* exactly when the provider's count is present and not zero; a Usage event
\* of the OpenAI adapter has no cache field.
C17_AbsentNotZero ==
    /\ [](\A k \in 1..Len(events) : \A f \in CacheFields :
            (events[k].type = "usage" /\ Has(events[k], f)) =>
                (handler = "anthropic" /\ events[k][f] > 0))
    /\ [][(/\ handler = "anthropic"
           /\ Len(delivered') = Len(delivered) + 1
           /\ delivered'[Len(delivered')].type = "message_start") =>
            LET usage == delivered'[Len(delivered')].message.usage
                e == events'[Len(events')]
            IN  /\ Len(events') = Len(events) + 1
                /\ e.type = "usage"
                /\ \A f \in CacheFields :
                     /\ Has(e, f) =
                          (Has(usage, ProviderCount(f)) /\ usage[ProviderCount(f)] # 0)
                     /\ Has(e, f) => e[f] = usage[ProviderCount(f)]]_vars

\* a message_start with cache_creation_input_tokens 0 and
\* cache_read_input_tokens 3 gave a Usage event with cacheReadTokens 3 and
\* no cacheWriteTokens
C17_Witness ==
    /\ handler = "anthropic"
    /\ Len(delivered) = 1
    /\ delivered[1].type = "message_start"
    /\ Has(delivered[1].message.usage, "cache_creation_input_tokens")
    /\ delivered[1].message.usage.cache_creation_input_tokens = 0
    /\ events = << [type |-> "usage", inputTokens |-> 0, outputTokens |-> 7,
                    cacheReadTokens |-> 3] >>

\* the sum of the counts of field f over the events that carry it
RECURSIVE SumOf(_, _)
SumOf(es, f) ==
    IF es = <<>>
    THEN 0
    ELSE (IF Head(es).type = "usage" /\ Has(Head(es), f) THEN Head(es)[f] ELSE 0)
         + SumOf(Tail(es), f)

\* C18: the running totals are, field by field, the sums of the Usage
\* events yielded so far; a cache total is set exactly when some event
\* carried that field.
C18_UsageAccumulation ==
    /\ totals.inputTokens = SumOf(events, "inputTokens")
    /\ totals.outputTokens = SumOf(events, "outputTokens")
    /\ \A f \in CacheFields :
         /\ Has(totals, f) =
              (\E k \in 1..Len(events) : events[k].type = "usage" /\ Has(events[k], f))
         /\ Has(totals, f) => totals[f] = SumOf(events, f)

\* Usage events with input 10, output 5, and output 7 with cacheRead 3:
\* input = 10, output = 12, cacheRead = 3, cacheWrite unset
C18_Witness ==
    /\ Len(events) = 3
    /\ events[1] = [type |-> "usage", inputTokens |-> 10, outputTokens |-> 0]
    /\ events[2] = [type |-> "usage", inputTokens |-> 0, outputTokens |-> 5]
    /\ events[3] = [type |-> "usage", inputTokens |-> 0, outputTokens |-> 7,
                    cacheReadTokens |-> 3]
    /\ totals = [inputTokens |-> 10, outputTokens |-> 12, cacheReadTokens |-> 3]

\* the rank of an event within the events of one chunk of the OpenAI adapter
TypeRank(e) == CASE e.type = "text" -> 1 [] e.type = "reasoning" -> 2 [] OTHER -> 3

\* C19: events are only ever appended, one at a time; the events yielded
\* are an initial part of the events of the chunks delivered, chunk after
\* chunk, and a chunk is delivered only when the events of the earlier ones
\* have all been yielded, so the events of an earlier chunk precede those of
\* a later one; in the streaming OpenAI adapter the events of one chunk come
\* in the order Text, Reasoning, Usage.
C19_EventOrder ==
    /\ [][/\ IsPrefix(events, events')
          /\ Len(events') <= Len(events) + 1
          /\ IsPrefix(delivered, delivered')
          /\ Len(delivered') = Len(delivered) + 1 =>
                events = generated]_vars
    /\ [](stream = "open" =>
            /\ IsPrefix(events, EventsOf(delivered))
            /\ handler = "openai" =>
                 \A k \in 1..Len(delivered) :
                     LET new == chunkEvents(delivered[k])
                     IN  \A i \in 1..Len(new) : \A j \in 1..Len(new) :
                             i < j => TypeRank(new[i]) < TypeRank(new[j]))

\* after a chunk with a text, one chunk of the OpenAI stream gave a Text, a
\* Reasoning and a Usage event, in this order
C19_Witness ==
    /\ handler = "openai"
    /\ stream = "open"
    /\ Len(delivered) = 2
    /\ Len(events) = 4
    /\ events[1].type = "text"
    /\ events[2].type = "text"
    /\ events[3].type = "reasoning"
    /\ events[4].type = "usage"
    /\ openAiEvents(delivered[2]) = SubSeq(events, 2, 4)

----------------------------------------------------------------------------
(* Properties of parseAssistantMessage: the transitions.                   *)

\* the tool whose opening delimiter ends the characters scanned so far
OpenedTool(acc) ==
    { k \in 1..Len(toolUseNames) :
        /\ Len(acc) >= Len(OpeningTag(toolUseNames[k]))
        /\ SubSeq(acc, Len(acc) - Len(OpeningTag(toolUseNames[k])) + 1, Len(acc))
             = OpeningTag(toolUseNames[k]) }

\* C20: the iteration that opens a tool from state Outside is the one that
\* scans the '>' of the opening delimiter <T> of a known tool T; it appends
\* the text block that was accumulated, with partial=false and as content
\* the trimmed characters from the start of the text span up to the '<' of
\* the delimiter, leaves no text span open, and makes a ToolUse named T with
\* partial=true and no parameter the open block.
C20_ToolOpening ==
    [][(/\ pc = "parse"
        /\ pc' = "parse"
        /\ scan.currentToolUse = undefined
        /\ scan'.currentToolUse # undefined) =>
           \E k \in OpenedTool(scan'.accumulator) :
               /\ scan'.accumulator[Len(scan'.accumulator)] = ">"
               /\ scan'.currentToolUse = ToolUse(toolUseNames[k], <<>>, TRUE)
               /\ scan.currentTextContent # undefined
               /\ scan'.currentTextContent = undefined
               /\ scan'.contentBlocks =
                    Append(scan.contentBlocks,
                           TextContent(
                               trim(SubSeq(scan'.accumulator,
                                           scan.currentTextContentStartIndex + 1,
                                           Len(scan'.accumulator)
                                             - Len(OpeningTag(toolUseNames[k])))),
                               FALSE))]_vars

\* the scan of "a <read_file>" has just passed the '>': the text "a" is a
\* complete block and read_file is open without parameters
C20_Witness ==
    /\ pc = "parse"
    /\ scan.accumulator = <<"a", " ">> \o OpeningTag(read_file)
    /\ scan.contentBlocks = << TextContent(<<"a">>, FALSE) >>
    /\ scan.currentTextContent = undefined
    /\ scan.currentToolUse = ToolUse(read_file, <<>>, TRUE)

\* one iteration of the loop has been taken
Step == pc = "parse" /\ pc' = "parse" /\ scan'.i = scan.i + 1

\* the string acc ends with the string t
EndsIn(acc, t) ==
    Len(acc) >= Len(t) /\ SubSeq(acc, Len(acc) - Len(t) + 1, Len(acc)) = t

\* the characters scanned from index `from` (counted from 0) on
Since(acc, from) == SubSeq(acc, from + 1, Len(acc))

\* the params ps and qs agree on every name but p
SameButFor(ps, qs, p) ==
    \A q \in Range(toolParamNames) \ {p} :
        /\ HasParam(ps, q) = HasParam(qs, q)
        /\ HasParam(ps, q) => ParamValue(ps, q) = ParamValue(qs, q)

\* C21: while parameter p is open, the iteration at which the text since its
\* opening delimiter first ends with </p> closes it and stores under p the
\* text between the two delimiters, trimmed; the tool then holds exactly one
\* value for p (an earlier value is replaced) and its other parameters are
\* unchanged. Any other iteration leaves p open.
C21_ParamClose ==
    [][(Step /\ scan.currentParamName # <<>>) =>
          LET p     == scan.currentParamName
              value == Since(scan'.accumulator, scan.currentParamValueStartIndex)
              ps    == scan'.currentToolUse.params
          IN  IF EndsIn(value, ClosingTag(p))
              THEN /\ scan'.currentParamName = <<>>
                   /\ ~Contains(SubSeq(value, 1, Len(value) - 1), ClosingTag(p))
                   /\ Cardinality({k \in 1..Len(ps) : ps[k].name = p}) = 1
                   /\ ParamValue(ps, p) =
                          trim(SubSeq(value, 1, Len(value) - Len(ClosingTag(p))))
                   /\ SameButFor(ps, scan.currentToolUse.params, p)
              ELSE /\ scan'.currentParamName = p
                   /\ scan'.currentToolUse = scan.currentToolUse]_vars

\* <read_file><path> a</path><path>b </path> has been parsed: path is "b"
C21_Witness ==
    /\ pc = "idle"
    /\ assistantMessage = Repeated(read_file, path, <<" ", "a">>, <<"b", " ">>)
    /\ assistantMessageContent =
          << TextContent(<<>>, FALSE),
             ToolUse(read_file, << [name |-> path, value |-> <<"b">>] >>, TRUE) >>

\* C22: an open tool T is completed, that is appended with partial=false,
\* in exactly the iterations in which no parameter is open and the scanned
\* text ends with </T>; in every other iteration it stays the open tool and
\* nothing is appended. With no tool open, every character scanned is taken
\* as text or ends the opening delimiter of a tool.
C22_ToolClose ==
    /\ [][(Step /\ scan.currentToolUse # undefined) =>
            LET T == scan.currentToolUse.name
            IN  /\ (scan'.currentToolUse = undefined) =
                     (/\ scan.currentParamName = <<>>
                      /\ EndsIn(scan'.accumulator, ClosingTag(T)))
                /\ scan'.currentToolUse = undefined =>
                     /\ scan'.contentBlocks =
                          Append(scan.contentBlocks,
                                 ToolUse(T, scan.currentToolUse.params, FALSE))
                     /\ scan'.currentParamName = <<>>
                     /\ scan'.currentTextContent = undefined
                /\ scan'.currentToolUse # undefined =>
                     /\ scan'.currentToolUse.name = T
                     /\ scan'.currentToolUse.partial
                     /\ scan'.contentBlocks = scan.contentBlocks]_vars
    /\ [][(Step /\ scan.currentToolUse = undefined) =>
            (scan'.currentTextContent # undefined) # (scan'.currentToolUse # undefined)]_vars

\* <read_file></read_file> a has been parsed: the tool is complete and the
\* characters after it are text
C22_Witness ==
    /\ pc = "idle"
    /\ assistantMessage =
          OpeningTag(read_file) \o ClosingTag(read_file) \o <<" ", "a">>
    /\ assistantMessageContent =
          << TextContent(<<>>, FALSE), ToolUse(read_file, <<>>, FALSE),
             TextContent(<<"a">>, TRUE) >>

\* C23: while parameter p is open, an iteration that does not end the text
\* since its opening delimiter with </p> changes nothing but the characters
\* scanned: no block is appended, the tool stays open with the same
\* parameters and p stays open, whatever delimiter has just been scanned;
\* and no iteration with p open completes the tool.
C23_ParamOpaque ==
    /\ [](scan.currentParamName # <<>> =>
            (scan.currentToolUse # undefined /\ scan.currentToolUse.partial))
    /\ [][(/\ Step
           /\ scan.currentParamName # <<>>
           /\ ~EndsIn(Since(scan'.accumulator, scan.currentParamValueStartIndex),
                      ClosingTag(scan.currentParamName))) =>
            scan' = [scan EXCEPT !.accumulator = scan'.accumulator, !.i = @ + 1]]_vars
    /\ [][(Step /\ scan.currentParamName # <<>>) =>
            /\ scan'.currentToolUse # undefined
            /\ scan'.currentToolUse.partial
            /\ scan'.contentBlocks = scan.contentBlocks]_vars

\* <read_file><path></read_file> has been parsed: the tool is still open
\* and the closing delimiter of the tool is the value of path
C23_Witness ==
    /\ pc = "idle"
    /\ assistantMessage =
          OpeningTag(read_file) \o OpeningTag(path) \o ClosingTag(read_file)
    /\ assistantMessageContent =
          << TextContent(<<>>, FALSE),
             ToolUse(read_file,
                     << [name |-> path, value |-> ClosingTag(read_file)] >>, TRUE) >>

\* the names of the parameter vocabulary whose opening delimiter ends acc
OpenedParams(acc) ==
    {k \in 1..Len(toolParamNames) : EndsIn(acc, OpeningTag(toolParamNames[k]))}

\* C24: while a tool is open and no parameter is, an iteration that does not
\* complete the tool opens parameter p exactly when the scanned text ends
\* with <p> for a name p of the parameter vocabulary, whatever the tool; the
\* value of p starts after the delimiter. No other tag opens a parameter.
C24_ParamOpening ==
    [][(/\ Step
        /\ scan.currentToolUse # undefined
        /\ scan.currentParamName = <<>>
        /\ scan'.currentToolUse # undefined) =>
           IF OpenedParams(scan'.accumulator) # {}
           THEN \E k \in OpenedParams(scan'.accumulator) :
                   /\ scan'.currentParamName = toolParamNames[k]
                   /\ scan'.currentParamValueStartIndex = Len(scan'.accumulator)
           ELSE scan'.currentParamName = <<>>]_vars

\* the scan of <read_file><content> has opened content in read_file
C24_Witness ==
    /\ pc = "parse"
    /\ scan.accumulator = OpeningTag(read_file) \o OpeningTag(content)
    /\ scan.currentToolUse = ToolUse(read_file, <<>>, TRUE)
    /\ scan.currentParamName = content
    /\ scan.currentParamValueStartIndex = Len(scan.accumulator)

\* C25: when the buffer ends while a tool is open, the last block returned
\* is that tool with partial=true; it holds every parameter closed so far
\* and, when a parameter is still open, that parameter with the trimmed text
\* from its opening delimiter to the end of the buffer.
C25_EndInsideTool ==
    (pc = "idle" /\ scan.currentToolUse # undefined) =>
        /\ assistantMessageContent # <<>>
        /\ LET last == assistantMessageContent[Len(assistantMessageContent)]
               p    == scan.currentParamName
           IN  /\ last.type = "tool_use"
               /\ last.partial
               /\ last.name = scan.currentToolUse.name
               /\ IF p # <<>>
                  THEN /\ HasParam(last.params, p)
                       /\ ParamValue(last.params, p) =
                              trim(Since(assistantMessage,
                                         scan.currentParamValueStartIndex))
                       /\ SameButFor(last.params, scan.currentToolUse.params, p)
                  ELSE last.params = scan.currentToolUse.params

\* <read_file><path></pa has been parsed: path is still open and holds
\* the truncated closing delimiter
C25_Witness ==
    /\ pc = "idle"
    /\ assistantMessage = OpeningTag(read_file) \o OpeningTag(path) \o <<lt, "/", "p", "a">>
    /\ assistantMessageContent =
          << TextContent(<<>>, FALSE),
             ToolUse(read_file,
                     << [name |-> path, value |-> <<lt, "/", "p", "a">>] >>, TRUE) >>

\* C26: the write_to_file content rule assigns content only when the span
\* of the tool holds the opening delimiter <content>: an open tool whose
\* span, the text scanned since its opening delimiter, does not contain
\* <content> has no content parameter, however many </content> it holds.
C26_ContentGuard ==
    (/\ scan.currentToolUse # undefined
     /\ ~Contains(Since(scan.accumulator, scan.currentToolUseStartIndex),
                  OpeningTag(content)))
        => ~HasParam(scan.currentToolUse.params, content)

\* the orderings of the list `names`
Orderings(names) ==
    {f \in [1..Len(names) -> Range(names)] : Range(f) = Range(names)}

ToolOrderings == Orderings(toolUseNames)
ParamOrderings == Orderings(toolParamNames)

\* one iteration of the for loop with the tool names enumerated in the
\* order `tools` and the parameter names in the order `params`
loopBodyOrdered(s, char, tools, params) ==
    LET s1 == [s EXCEPT !.accumulator = Append(@, char)]
        s2 == IF s1.currentToolUse # undefined /\ s1.currentParamName # <<>>
              THEN InParam(s1)
              ELSE IF s1.currentToolUse # undefined
                   THEN InToolVariant(s1, <<s1.currentToolUse.name>>, params)
                   ELSE OutsideVariant(s1, tools, 1, FALSE, TRUE)
    IN  [s2 EXCEPT !.i = @ + 1]

\* C27: at every scan position the scanned text ends with the opening
\* delimiter of at most one tool and of at most one parameter, and every
\* iteration of the scan gives the same locals whatever the order in which
\* the tool names and the parameter names are enumerated, so the result of
\* parseAssistantMessage is the same for every ordering.
C27_OrderIndependence ==
    /\ [](/\ Cardinality(OpenedTool(scan.accumulator)) <= 1
          /\ Cardinality(OpenedParams(scan.accumulator)) <= 1)
    /\ [][Step =>
            \A tools \in ToolOrderings, params \in ParamOrderings :
                scan' = loopBodyOrdered(scan, assistantMessage[scan.i + 1],
                                        tools, params)]_vars

\* <path><content><read_file> and a blank have been parsed: the parameter
\* tags before the tool are text and open no parameter in it
C27_Witness ==
    /\ pc = "idle"
    /\ assistantMessage = Before(path, content, read_file)
    /\ assistantMessageContent =
          << TextContent(OpeningTag(path) \o OpeningTag(content), FALSE),
             ToolUse(read_file, <<>>, TRUE) >>

\* the blocks bs alternate, a text first: text at the odd places, tools at
\* the even ones, each tool after a text that is complete
Alternates(bs) ==
    \A k \in 1..Len(bs) :
        IF k % 2 = 1
        THEN bs[k].type = "text"
        ELSE /\ bs[k].type = "tool_use"
             /\ ~bs[k - 1].partial

\* C28: the blocks returned alternate TextContent and ToolUse and start with
\* a TextContent, so that every ToolUse follows a TextContent that is
\* complete and no two blocks of a kind are adjacent; the iteration that
\* opens a tool appends that TextContent, and its content is empty when the
\* text it closes is nothing but the opening delimiter of the tool, which is
\* the case of a delimiter at the start of the buffer or directly after the
\* closing delimiter of another tool.
C28_Alternation ==
    /\ [](pc = "idle" => Alternates(assistantMessageContent))
    /\ [](Alternates(scan.contentBlocks))
    /\ [][(Step /\ scan.currentToolUse = undefined /\ scan'.currentToolUse # undefined) =>
            LET tag   == OpeningTag(scan'.currentToolUse.name)
                start == Len(scan'.accumulator) - Len(tag)
            IN  /\ Len(scan'.contentBlocks) = Len(scan.contentBlocks) + 1
                /\ Len(scan'.contentBlocks) % 2 = 1
                /\ (\/ start = 0
                    \/ /\ scan.contentBlocks # <<>>
                       /\ scan.currentTextContentStartIndex = start)
                     => scan'.contentBlocks[Len(scan'.contentBlocks)] =
                            TextContent(<<>>, FALSE)]_vars

\* <read_file></read_file><read_file> has been parsed: an empty text is
\* before each of the two tools
C28_Witness ==
    /\ pc = "idle"
    /\ assistantMessage =
          OpeningTag(read_file) \o ClosingTag(read_file) \o OpeningTag(read_file)
    /\ assistantMessageContent =
          << TextContent(<<>>, FALSE), ToolUse(read_file, <<>>, FALSE),
             TextContent(<<>>, FALSE), ToolUse(read_file, <<>>, TRUE) >>

\* the number of tools met so far: the tools appended and the open one
ToolCount(s) ==
    Cardinality({k \in 1..Len(s.contentBlocks) : s.contentBlocks[k].type = "tool_use"})
    + (IF s.currentToolUse # undefined THEN 1 ELSE 0)

\* C29: tools do not nest. While a tool is open, an iteration that scans
\* the end of a tool's opening delimiter appends nothing and leaves the
\* same tool open; the number of tools grows, by one, only in an iteration
\* that scans the end of a tool's opening delimiter while no tool is open,
\* and the result holds that many tools; and an iteration with a tool open
\* and no parameter open never makes text of what it scans: it appends
\* nothing but the completed tool and, unless it is write_to_file and the
\* scanned text ends with </content>, leaves the parameters as they are.
C29_NoNesting ==
    /\ [][(/\ Step
           /\ scan.currentToolUse # undefined
           /\ OpenedTool(scan'.accumulator) # {}) =>
             /\ scan'.contentBlocks = scan.contentBlocks
             /\ scan'.currentToolUse # undefined
             /\ scan'.currentToolUse.name = scan.currentToolUse.name]_vars
    /\ [][Step =>
             /\ ToolCount(scan') \in {ToolCount(scan), ToolCount(scan) + 1}
             /\ ToolCount(scan') = ToolCount(scan) + 1 =>
                  (scan.currentToolUse = undefined /\ OpenedTool(scan'.accumulator) # {})]_vars
    /\ [](pc = "idle" =>
             Cardinality({k \in 1..Len(assistantMessageContent) :
                             IsToolUse(assistantMessageContent[k])}) = ToolCount(scan))
    /\ [][(Step /\ scan.currentToolUse # undefined /\ scan.currentParamName = <<>>) =>
             /\ scan'.currentTextContent = undefined
             /\ \/ scan'.contentBlocks = scan.contentBlocks
                \/ scan'.contentBlocks =
                      Append(scan.contentBlocks,
                             [scan.currentToolUse EXCEPT !.partial = FALSE])
             /\ (/\ scan'.currentToolUse # undefined
                 /\ ~(/\ scan.currentToolUse.name = write_to_file
                      /\ EndsIn(scan'.accumulator, ClosingTag(content)))) =>
                   scan'.currentToolUse = scan.currentToolUse]_vars

\* <read_file><read_file></read_file> has been parsed: one tool, and the
\* second opening delimiter is in no block
C29_Witness ==
    /\ pc = "idle"
    /\ assistantMessage =
          OpeningTag(read_file) \o OpeningTag(read_file) \o ClosingTag(read_file)
    /\ assistantMessageContent =
          << TextContent(<<>>, FALSE), ToolUse(read_file, <<>>, FALSE) >>

\* C30: the empty buffer parses to the empty list and every other buffer to
\* at least one block; a buffer of white space alone parses to one
\* TextContent with empty content and partial=true.
C30_NonEmptyResult ==
    pc = "idle" =>
        /\ (assistantMessageContent = <<>>) = (assistantMessage = <<>>)
        /\ (/\ assistantMessage # <<>>
            /\ \A k \in 1..Len(assistantMessage) : assistantMessage[k] \in WhiteSpace)
              => assistantMessageContent = << TextContent(<<>>, TRUE) >>

\* a blank and a line feed have been parsed
C30_Witness ==
    /\ pc = "idle"
    /\ assistantMessage = <<" ", "\n">>
    /\ assistantMessageContent = << TextContent(<<>>, TRUE) >>

----------------------------------------------------------------------------
(* Properties of the adapters, continued.                                  *)

\* the chunk starts a content block of type `kind`
StartsBlock(chunk, kind) ==
    chunk.type = "content_block_start" /\ chunk.content_block.type = kind

\* the content blocks of the response are numbered from 0 in their order
WellIndexed(chunks) ==
    \A k \in 1..Len(chunks) :
        chunks[k].type = "content_block_start" =>
            chunks[k].index =
                Cardinality({j \in 1..(k - 1) : chunks[j].type = "content_block_start"})

\* the events of type `type` with the line break as payload among es
LineBreaks(es, type) ==
    {n \in 1..Len(es) : es[n].type = type /\ es[n].text = "\n"}

\* C31: in the Anthropic adapter the start of a text block yields a Text
\* "\n" exactly when an earlier block of the response is a text block, so no
\* line break comes before the first text block; likewise the start of a
\* thinking block yields a Reasoning "\n" exactly when an earlier block is a
\* thinking block.
C31_LineBreaks ==
    (handler = "anthropic" /\ WellIndexed(delivered)) =>
        \A k \in 1..Len(delivered) :
            /\ StartsBlock(delivered[k], "text") =>
                 (LineBreaks(anthropicEvents(delivered[k]), "text") # {})
                   = (\E j \in 1..(k - 1) : StartsBlock(delivered[j], "text"))
            /\ StartsBlock(delivered[k], "thinking") =>
                 (LineBreaks(anthropicEvents(delivered[k]), "reasoning") # {})
                   = (\E j \in 1..(k - 1) : StartsBlock(delivered[j], "thinking"))

\* the configured apiModelId is a key of the model table
InTable ==
    /\ Has(options, "apiModelId")
    /\ options.apiModelId # ""
    /\ options.apiModelId \in DOMAIN anthropicModels

\* C32: getModel returns the configured apiModelId when it is a key of the
\* model table, with the info of that key, except that for the virtual id
\* claude-3-7-sonnet-20250219:thinking it returns claude-3-7-sonnet-20250219
\* with the info of the thinking variant; for an absent or unknown id it
\* returns the default model id with the default model's info and no
\* thinking configuration. The model of the request sent is the id returned
\* and never carries the :thinking suffix.
C32_ModelResolution ==
    AnthropicSent =>
        LET model == getModel(options)
        IN  /\ requests[1].model = model.id
            /\ requests[1].model # thinkingModelId
            /\ IF InTable
               THEN /\ model.info = anthropicModels[options.apiModelId]
                    /\ model.id = IF options.apiModelId = thinkingModelId
                                  THEN "claude-3-7-sonnet-20250219"
                                  ELSE options.apiModelId
               ELSE /\ model.id = anthropicDefaultModelId
                    /\ model.info = anthropicModels[anthropicDefaultModelId]
                    /\ ~Has(model, "thinking")
                    /\ ~Has(requests[1], "thinking")

\* the request of the thinking variant names claude-3-7-sonnet-20250219 and
\* carries the thinking configuration of the variant
C32_Witness ==
    /\ AnthropicSent
    /\ InTable
    /\ options.apiModelId = thinkingModelId
    /\ requests[1].model = "claude-3-7-sonnet-20250219"
    /\ getModel(options).info.thinking
    /\ Has(requests[1], "thinking")

\* the OpenAI adapter in streaming mode
Streaming == handler = "openai" /\ openAiStreamingEnabled(options)

\* the events of type `type` among es
OfType(es, type) == {n \in 1..Len(es) : es[n].type = type}

\* C33: in streaming mode the OpenAI adapter yields no Text and no Reasoning
\* event with the empty string as payload: a chunk whose delta has no
\* content, or the empty content, yields no Text event, and a chunk without
\* choices yields nothing but at most one Usage event.
C33_NoEmptyText ==
    Streaming =>
        /\ IsPrefix(events, EventsOf(delivered))
        /\ stream = "done" => events = EventsOf(delivered)
        /\ \A n \in 1..Len(events) :
              events[n].type \in {"text", "reasoning"} => events[n].text # ""
        /\ \A k \in 1..Len(delivered) :
              LET chunk == delivered[k]
                  new   == openAiEvents(chunk)
              IN  /\ (~Has(deltaOf(chunk), "content") \/ deltaOf(chunk).content = "")
                        => OfType(new, "text") = {}
                  /\ chunk.choices = <<>> =>
                        /\ Len(new) <= 1
                        /\ OfType(new, "usage") = 1..Len(new)

\* a chunk with the empty content and a chunk without choices have been
\* delivered: the only event is the usage of the second
C33_Witness ==
    /\ Streaming
    /\ Len(delivered) = 2
    /\ delivered[1] = [choices |-> << [delta |-> [content |-> ""]] >>]
    /\ delivered[2].choices = <<>>
    /\ Len(events) = 1
    /\ events[1].type = "usage"

----------------------------------------------------------------------------
(* Properties of the webview provider.                                     *)

\* the calls of cancelTask started so far
Cancels == {c \in 1..Len(calls) : calls[c].op = "cancelTask"}

\* call c moves from the await `from` to the await `to` in this step
Moves(c, from, to) ==
    /\ c \in 1..Len(calls)
    /\ calls[c].pc = from
    /\ calls'[c].pc = to

\* the steps of cancelTask from its wait on, and its end without a task
CancelSequence ==
    /\ [](\A c \in Cancels :
            calls[c].pc = "wait" =>
                /\ cline # 0
                /\ instances[cline].aborted
                /\ ~instances[cline].abandoned
                /\ instances[cline].taskId = calls[c].item)
    /\ [][\A c \in Cancels :
            /\ Moves(c, "start", "done") =>
                 (cline = 0 /\ UNCHANGED <<cline, instances, taskHistory>>)
            /\ Moves(c, "start", "lookup") =>
                 (cline # 0 /\ UNCHANGED <<cline, instances, taskHistory>>)
            /\ Moves(c, "wait", "state") =>
                 /\ instances'[cline].abandoned
                 /\ instances'[cline].aborted
                 /\ cline' = 0
                 /\ Len(instances') = Len(instances)
            /\ Moves(c, "state", "done") =>
                 /\ Len(instances') = Len(instances) + 1
                 /\ cline' = Len(instances')
                 /\ instances'[cline'] = NewInstance(calls[c].item)
                 /\ \E i \in 1..Len(instances) :
                       /\ instances[i].abandoned
                       /\ instances[i].aborted
                       /\ instances[i].taskId = calls[c].item
                       /\ instances'[i] = instances[i]]_vars
    /\ [][\A i \in 1..Len(instances) :
            (~instances[i].abandoned /\ instances'[i].abandoned) =>
                (i = cline /\ \E c \in Cancels : Moves(c, "wait", "state"))]_vars

\* C34 as stated: cancelTask with an active task, no other provider call
\* being in flight, tells the current instance to abort, then waits, then
\* marks this same instance abandoned, and only then creates a new instance
\* from the same history item: whenever a cancelTask that found an active
\* task has ended, the instance of that task is aborted and abandoned. With
\* no active task cancelTask ends at once and changes nothing.
C34_AlwaysAborts ==
    /\ CancelSequence
    /\ [](\A c \in Cancels :
            (calls[c].pc \in {"done", "thrown"} /\ calls[c].item # 0) =>
                \E i \in 1..Len(instances) :
                    /\ instances[i].taskId = calls[c].item
                    /\ instances[i].aborted
                    /\ instances[i].abandoned)

\* the awaits of getTaskWithId a call may be suspended at
LookupAwaits == {"lookup", "fileCheck", "readFile", "forget", "forgotten"}

\* C34 amended: cancelTask with an active task, no other provider call being
\* in flight, first reads the history item of the task with getTaskWithId,
\* which changes neither the current task nor any instance. When
\* getTaskWithId throws (the task is not in the history read, or its file is
\* missing or cannot be read) cancelTask rejects with that error and the
\* task stays the current one, not told to abort and not abandoned. When it
\* returns, cancelTask tells the current instance to abort and then waits;
\* while it waits that instance stays the current one; after the wait it
\* marks this same instance abandoned (an instance is marked abandoned by
\* nothing else), and only the step after that creates a new instance from
\* the history item of the cancelled one and makes it the current task. With
\* no active task cancelTask ends at once and changes nothing.
C34_CancelOrdering ==
    /\ CancelSequence
    /\ [][\A c \in Cancels :
            /\ (calls[c].pc \in LookupAwaits /\ calls'[c] # calls[c]) =>
                 /\ cline' = cline
                 /\ cline # 0
                 /\ instances[cline].taskId = calls[c].item
                 /\ ~instances[cline].aborted
                 /\ ~instances[cline].abandoned
                 /\ calls'[c].pc \in LookupAwaits \cup {"wait", "thrown"}
            /\ (calls[c].pc \in LookupAwaits /\ calls'[c] # calls[c]
                                              /\ calls'[c].pc # "wait") =>
                 instances' = instances
            /\ Moves(c, "readFile", "wait") =>
                 instances' = [instances EXCEPT ![cline].aborted = TRUE]
            /\ (calls[c].pc # "thrown" /\ calls'[c].pc = "thrown") =>
                 /\ calls[c].pc \in {"readFile", "forgotten"}
                 /\ calls'[c].error =
                        IF calls[c].pc = "readFile" THEN "readFile" ELSE "Task not found"]_vars

\* a first cancelTask has rejected because the file of task 1 could not be
\* read, and left the task running; a second one has cancelled the task
\* while it streamed and has returned: instance 1 is abandoned, instance 2
\* is the current task
C34_Witness ==
    /\ Len(calls) = 2
    /\ calls[1].op = "cancelTask"
    /\ calls[1].pc = "thrown"
    /\ calls[1].error = "readFile"
    /\ calls[2].op = "cancelTask"
    /\ calls[2].pc = "done"
    /\ calls[2].item = 1
    /\ calls[2].historyItem = 1
    /\ Len(instances) = 2
    /\ instances[1].isStreaming
    /\ instances[1].aborted
    /\ instances[1].abandoned
    /\ cline = 2
    /\ instances[2] = NewInstance(1)

\* call c is a call of cancelTask suspended at `at`
CancelAt(c, at) ==
    c <= Len(calls) /\ calls[c].op = "cancelTask" /\ calls[c].pc = at

\* every cancelTask that waits returns
CancelReturns ==
    \A c \in 1..MaxCalls : [](CancelAt(c, "wait") => <>CancelAt(c, "done"))

\* C35 as stated: a cancelTask that has started its wait always returns, and
\* in every case, the timeout and the task gone included, when the wait ends
\* the task it cancels is marked abandoned, and the task is then created
\* again from its history item.
C35_AlwaysAbandons ==
    /\ CancelReturns
    /\ [][\A c \in Cancels :
            /\ (calls[c].pc = "wait" /\ calls'[c].pc # "wait") =>
                 /\ calls'[c] = [calls[c] EXCEPT !.pc = "state"]
                 /\ \E i \in 1..Len(instances) :
                       /\ instances[i].taskId = calls[c].item
                       /\ instances'[i].abandoned
                 /\ cline' = 0
            /\ (calls[c].pc = "state" /\ calls'[c].pc # "state") =>
                 /\ calls'[c] = [calls[c] EXCEPT !.pc = "done"]
                 /\ cline' = Len(instances')
                 /\ instances' = Append(instances, NewInstance(calls[c].item))]_vars

\* C35 amended: a cancelTask that has started its wait always returns,
\* whatever the task and the other calls do: the wait ends when its condition
\* holds and on its timeout otherwise, and in both cases the code after it
\* runs, which marks abandoned the instance that is the current task at that
\* moment, if there is one (no instance when the task is gone, the
\* replacement when another call has replaced the task), clears it, and then
\* creates the task again from the history item cancelTask read.
C35_CancelCompletes ==
    /\ CancelReturns
    /\ [][\A c \in Cancels :
            /\ (calls[c].pc = "wait" /\ calls'[c].pc # "wait") =>
                 /\ calls'[c] = [calls[c] EXCEPT !.pc = "state"]
                 /\ cline # 0 => instances'[cline].abandoned
                 /\ \A i \in 1..Len(instances) :
                       i # cline => instances'[i] = instances[i]
                 /\ cline' = 0
            /\ (calls[c].pc = "state" /\ calls'[c].pc # "state") =>
                 /\ calls'[c] = [calls[c] EXCEPT !.pc = "done"]
                 /\ cline' = Len(instances')
                 /\ instances' = Append(instances, NewInstance(calls[c].item))]_vars

\* cancelTask has returned although the task it cancelled was streaming,
\* past its first chunk, and had not finished aborting: the wait timed out
C35_Witness ==
    /\ CancelAt(1, "done")
    /\ Len(instances) = 2
    /\ instances[1].abandoned
    /\ instances[1].isStreaming
    /\ ~instances[1].isWaitingForFirstChunk
    /\ ~instances[1].didFinishAbortingStream
    /\ cline = 2
    /\ instances[2].taskId = instances[1].taskId

\* C36: whatever the interleaving of initClineWithTask,
\* initClineWithHistoryItem, clearTask and cancelTask (and of the other
\* methods that clear or look up a task), every instance created that is not
\* the current task has been told to abort, and no call of cancelTask has
\* thrown a TypeError for lack of a current task after it had found one.
C36_NoOrphan ==
    /\ \A i \in 1..Len(instances) : i # cline => instances[i].aborted
    /\ \A c \in Cancels : calls[c].error # "TypeError"


\* the calls of updateTaskHistory that have written
Updated == {c \in 1..Len(calls) :
               calls[c].op = "updateTaskHistory" /\ calls[c].pc = "done"}

\* deleteTaskFromState was called for the id, or a later updateTaskHistory
\* for the id has written
Superseded(c) ==
    \/ \E d \in 1..Len(calls) :
          /\ calls[d].op = "deleteTaskFromState"
          /\ calls[d].item = calls[c].item.id
    \/ \E u \in Updated :
          u # c /\ calls[u].item.id = calls[c].item.id

\* C37: taskHistory never holds two items with one id, and the item written
\* by a completed updateTaskHistory is in taskHistory as long as no call has
\* replaced or deleted its id, however the calls of updateTaskHistory and
\* deleteTaskFromState interleave.
C37_NoLostUpdate ==
    /\ \A i, j \in 1..Len(taskHistory) :
          taskHistory[i].id = taskHistory[j].id => i = j
    /\ \A c \in Updated :
          ~Superseded(c) =>
              \E k \in 1..Len(taskHistory) : taskHistory[k] = calls[c].item


----------------------------------------------------------------------------
(* Properties of utils/sound.                                              *)

\* the path is non-empty and names a .wav file
WavPath(fp) ==
    \E e \in 6..(Len(fp) + 1) :
        /\ \A j \in e..Len(fp) : fp[j] = "/"
        /\ fp[e - 1] \in {"v", "V"}
        /\ fp[e - 2] \in {"a", "A"}
        /\ fp[e - 3] \in {"w", "W"}
        /\ fp[e - 4] = "."
        /\ fp[e - 5] # "/"

\* a playback is started in this step
Starts == played' # played

\* the entry added to shown in this step
Shows(entry) == shown' = Append(shown, entry)

\* C38: playSound starts a playback only when sound is enabled, the path is
\* non-empty and names a .wav file and at least MIN_PLAY_INTERVAL (500 ms)
\* have passed since the last started playback; two started playbacks are
\* never less than 500 ms apart; a call that starts none leaves
\* lastPlayedTime unchanged. No error reaches the caller: a call shows
\* nothing or hands one error to showErrorMessage and returns, a non-wav
\* path being reported as Only wav files are supported.; the only other
\* error is the rejection of a playback, which arrives in a later step than
\* the call, is handled by nobody and changes neither lastPlayedTime nor the
\* playbacks started.
C38_SoundThrottling ==
    /\ [][\A fp \in Paths : PlaySound(fp) =>
             /\ Starts => /\ isSoundEnabled
                          /\ WavPath(fp)
                          /\ clock - lastPlayedTime >= 500
                          /\ played' = Append(played, clock)
                          /\ lastPlayedTime' = clock
                          /\ shown' = shown
             /\ ~Starts => lastPlayedTime' = lastPlayedTime
             /\ (isSoundEnabled /\ Len(fp) > 0 /\ ~WavPath(fp)) =>
                    Shows([by |-> "showErrorMessage",
                           message |-> "Only wav files are supported."])
             /\ shown' # shown =>
                    \E message \in {"Only wav files are supported.",
                                     soundPlayError.message} :
                        Shows([by |-> "showErrorMessage", message |-> message])]_vars
    /\ [][(shown' # shown /\ shown'[Len(shown')].by # "showErrorMessage") =>
             /\ Shows([by |-> "unhandledRejection",
                       message |-> "Failed to play sound effect"])
             /\ playing > 0
             /\ played' = played
             /\ lastPlayedTime' = lastPlayedTime]_vars
    /\ [](\A i \in 1..(Len(played) - 1) :
             played[i + 1] - played[i] >= 500)

\* two playbacks have started exactly 500 ms apart, the first has been
\* rejected after the second had started, a call for a non-wav path was
\* reported, and a call now would come too soon
C38_Witness ==
    /\ Len(played) >= 2
    /\ played[2] - played[1] = 500
    /\ Len(shown) = 2
    /\ shown[1].by = "unhandledRejection"
    /\ shown[2] = [by |-> "showErrorMessage",
                   message |-> "Only wav files are supported."]
    /\ isSoundEnabled
    /\ clock - lastPlayedTime \in 1..499

====
